---- MODULE Spec2Model ----
(***************************************************************************)
(* mio-express: a resource router that exposes a Mio resource's CRUD       *)
(* operations through Express middleware (src/gulpfile.js lines 106-1104). *)
(* The model follows the callback structure of the handlers: one action    *)
(* per callback, each running up to the next asynchronous call.            *)
(***************************************************************************)
EXTENDS Integers, Sequences, FiniteSets, TLC

VARIABLES
  urls,      \* the url maps Resource.url() / Resource.Collection.url() return
  routes,    \* ResourceRouter.routes: the ordered list of route entries
  store,     \* the resource layer's stored items: id -> item or Absent
  reqs       \* per request context: req, res, next and the handler's locals

vars == <<urls, routes, store, reqs>>

(***************************************************************************)
(* Bounds                                                                  *)
(***************************************************************************)
MaxId == 1          \* stored items have ids 0..MaxId
MaxBodyLen == 2     \* longest array body (patch operations, representations)

(***************************************************************************)
(* JavaScript values.  Numbers, strings, undefined and null are wrapped so *)
(* that values of different types can be compared.  An object is a         *)
(* function from its keys to values.                                       *)
(***************************************************************************)
Num(n) == [num |-> n]
Str(s) == [str |-> s]
Undefined == [undef |-> TRUE]
Null == [null |-> TRUE]
EmptyObj == [k \in {} |-> Undefined]
IsObj(v) == v # Undefined /\ v # Null

\* a[key] of JavaScript: undefined when the key is missing
GetKey(o, k) == IF k \in DOMAIN o THEN o[k] ELSE Undefined
\* a[key] = v of JavaScript
SetKey(o, k, v) == [x \in (DOMAIN o) \cup {k} |-> IF x = k THEN v ELSE o[x]]
DelKey(o, k) == [x \in (DOMAIN o) \ {k} |-> o[x]]

\* The characters of the strings that occur as path segments.
Chars ==
  [s \in {"0", "1", "2", "3", "42", "7a", "id", "users", "other", "groups"} |->
     CASE s = "7a" -> <<"7", "a">>
       [] s = "id" -> <<"i", "d">>
       [] s = "42" -> <<"4", "2">>
       [] s = "users" -> <<"u", "s", "e", "r", "s">>
       [] s = "other" -> <<"o", "t", "h", "e", "r">>
       [] s = "groups" -> <<"g", "r", "o", "u", "p", "s">>
       [] OTHER -> <<s>>]
DigitVal == [c \in {"0", "1", "2", "3", "4", "5", "6", "7", "8", "9"} |->
     CASE c = "0" -> 0 [] c = "1" -> 1 [] c = "2" -> 2 [] c = "3" -> 3
       [] c = "4" -> 4 [] c = "5" -> 5 [] c = "6" -> 6 [] c = "7" -> 7
       [] c = "8" -> 8 [] OTHER -> 9]

\* !isNaN(s) for a string s of decimal digits and letters
IsNumeric(s) == \A i \in 1..Len(Chars[s]) : Chars[s][i] \in DOMAIN DigitVal
RECURSIVE DigitsValue(_)
DigitsValue(cs) ==
  IF cs = <<>> THEN 0
  ELSE 10 * DigitsValue(SubSeq(cs, 1, Len(cs) - 1)) + DigitVal[cs[Len(cs)]]
\* a conversion that reads the last digit only
ToNumber_LastDigit(s) == DigitVal[Chars[s][Len(Chars[s])]]
\* Number(s)
ToNumber(s) == DigitsValue(Chars[s])

(***************************************************************************)
(* The resource definition (src/test/mio-express.js lines 35-43)           *)
(***************************************************************************)
Attributes == <<"id", "name", "group_id">>
primaryKey == "id"

Ids == 0..MaxId
Absent == [absent |-> TRUE]
Names == {"bob", "jeff"}
Item(i, n) == [k \in {"id", "name"} |-> IF k = "id" THEN Num(i) ELSE Str(n)]
Items == {Item(i, n) : i \in Ids, n \in Names}

(***************************************************************************)
(* URL templates: a sequence of segments, a literal or a named parameter.  *)
(***************************************************************************)
Lit(s) == [lit |-> s]
Param(p) == [param |-> p]
CollectionT == <<Lit("users")>>
PrimaryT == <<Lit("users"), Param("primary")>>
IdT == <<Lit("users"), Param("id")>>
GroupT == <<Lit("groups"), Param("group_id"), Lit("users")>>

Url(k, t) == [key |-> k, url |-> t]

\* Resource.url() and Resource.Collection.url() of a resource declared with
\* baseUrl '/users'
DefaultUrls ==
  [resource |-> <<Url("get", PrimaryT), Url("put", PrimaryT),
                  Url("patch", PrimaryT), Url("post", CollectionT),
                  Url("delete", PrimaryT), Url("options", PrimaryT)>>,
   collection |-> <<Url("get", CollectionT), Url("put", CollectionT),
                    Url("patch", CollectionT), Url("post", CollectionT),
                    Url("delete", CollectionT), Url("options", CollectionT)>>]
\* a resource whose url maps name attributes in the templates
NamedUrls ==
  [resource |-> <<Url("get", IdT), Url("put", IdT), Url("patch", IdT),
                  Url("post", GroupT), Url("delete", IdT),
                  Url("options", IdT)>>,
   collection |-> <<Url("get", CollectionT), Url("patch", CollectionT),
                    Url("delete", CollectionT), Url("options", CollectionT)>>]
UrlConfigs == {DefaultUrls, NamedUrls}

\* String.prototype.toUpperCase on the keys of the url maps
toUpperCase(k) ==
  CASE k = "get" -> "GET" [] k = "put" -> "PUT" [] k = "patch" -> "PATCH"
    [] k = "post" -> "POST" [] k = "delete" -> "DELETE"
    [] k = "options" -> "OPTIONS" [] OTHER -> k

\* the route handlers this module exports
ExportedActions == {"get", "post", "put", "patch", "delete", "options"}
ExportedCollectionActions == {"get", "patch", "delete"}
NoHandler == "undefined"

\* MioExpressPlugin: Resource.routes[action] for the keys of Resource.url()
\* that name an exported handler, and Resource.routes.options
ResourceRoutes(u) ==
  {u.resource[i].key : i \in {j \in 1..Len(u.resource) :
                                 u.resource[j].key \in ExportedActions}}
    \cup {"options"}
\* MioExpressPlugin: Resource.routes.collection[action]
CollectionRoutes(u) ==
  {u.collection[i].key : i \in {j \in 1..Len(u.collection) :
                         u.collection[j].key \in ExportedCollectionActions}}
    \cup {"options"}

\* pathToRegExp(path, keys): the names of the parameters, in template order
RECURSIVE ParamNames(_)
ParamNames(t) ==
  IF t = <<>> THEN <<>>
  ELSE IF "param" \in DOMAIN Head(t)
       THEN <<Head(t).param>> \o ParamNames(Tail(t))
       ELSE ParamNames(Tail(t))

\* ResourceRouter: one route per key of the two url maps
ResourceRouter(u) ==
  [i \in 1..Len(u.resource) |->
     [action |-> u.resource[i].key,
      path |-> u.resource[i].url,
      method |-> toUpperCase(u.resource[i].key),
      handler |-> IF u.resource[i].key \in ResourceRoutes(u)
                  THEN u.resource[i].key ELSE NoHandler,
      params |-> ParamNames(u.resource[i].url)]]
  \o
  [i \in 1..Len(u.collection) |->
     [action |-> u.collection[i].key,
      path |-> u.collection[i].url,
      method |-> toUpperCase(u.collection[i].key),
      handler |-> IF u.collection[i].key \in CollectionRoutes(u)
                  THEN IF u.collection[i].key = "options" THEN "options"
                       ELSE "collection." \o u.collection[i].key
                  ELSE NoHandler,
      params |-> ParamNames(u.collection[i].url)]]

\* a regular expression that is not anchored at the end of the path
RegexpMatches_Unanchored(t, p) ==
  /\ Len(t) <= Len(p)
  /\ \A i \in 1..Len(t) : "lit" \in DOMAIN t[i] => t[i].lit = p[i]
\* route.regexp.exec(req.path): the template's segments match the path's
RegexpMatches(t, p) ==
  /\ Len(t) = Len(p)
  /\ \A i \in 1..Len(t) : "lit" \in DOMAIN t[i] => t[i].lit = p[i]
\* the captured groups, in template order
RECURSIVE Captures(_, _)
Captures(t, p) ==
  IF t = <<>> THEN <<>>
  ELSE IF "param" \in DOMAIN Head(t)
       THEN <<Head(p)>> \o Captures(Tail(t), Tail(p))
       ELSE Captures(Tail(t), Tail(p))

\* ResourceRouter.prototype.match: the matched routes (indices into routes,
\* in table order) and req.params after the loop
RECURSIVE MatchFrom(_, _, _, _)
MatchFrom(rs, i, path, acc) ==
  IF i > Len(rs) THEN acc
  ELSE IF RegexpMatches(rs[i].path, path)
       THEN LET caps == Captures(rs[i].path, path)
                ps == [k \in (DOMAIN acc.params) \cup
                              {rs[i].params[j] : j \in 1..Len(caps)} |->
                        IF \E j \in 1..Len(caps) : rs[i].params[j] = k
                        THEN Str(caps[CHOOSE j \in 1..Len(caps) :
                                   /\ rs[i].params[j] = k
                                   /\ \A j2 \in (j+1)..Len(caps) :
                                        rs[i].params[j2] # k])
                        ELSE acc.params[k]]
            IN MatchFrom(rs, i + 1, path,
                         [matched |-> Append(acc.matched, i), params |-> ps])
       ELSE MatchFrom(rs, i + 1, path, acc)
match(rs, path, params) ==
  MatchFrom(rs, 1, path, [matched |-> <<>>, params |-> params])

\* mergeParams(Resource, target, params)
RECURSIVE MergeKeys(_, _, _)
\* a merge that copies every parameter, declared attribute or not
MergeKeys_Unfiltered(target, params, keys) ==
  IF keys = {} THEN target
  ELSE LET k == CHOOSE x \in keys : TRUE
           param == IF k = "primary" THEN primaryKey ELSE k
           v == GetKey(params, param)
       IN MergeKeys(SetKey(target, param,
                           IF "str" \in DOMAIN v /\ IsNumeric(v.str)
                           THEN Num(ToNumber(v.str)) ELSE v),
                    params, keys \ {k})
MergeKeys(target, params, keys) ==
  IF keys = {} THEN target
  ELSE LET k == CHOOSE x \in keys : TRUE
           param == IF k = "primary" THEN primaryKey ELSE k
           v == GetKey(params, param)
           t2 == IF \E i \in 1..Len(Attributes) : Attributes[i] = param
                 THEN SetKey(target, param,
                        IF "str" \in DOMAIN v /\ IsNumeric(v.str)
                        THEN Num(ToNumber(v.str)) ELSE v)
                 ELSE target
       IN MergeKeys(t2, params, keys \ {k})
\* a merge that copies nothing
mergeParams_None(target, params) == target
mergeParams(target, params) == MergeKeys(target, params, DOMAIN params)


(***************************************************************************)
(* The resource layer (mio, external): a store of items keyed by id.       *)
(***************************************************************************)
NoErr == ""
UpstreamError == "uh oh"
ListenerError == "listener failed"
NotFound == "404 Not Found"
MethodNotAllowed == "405 Method Not Allowed"
BadRequest == "400 JSON-Patch malformed or invalid."
TypeError == "TypeError"

IsArray(b) == "arr" \in DOMAIN b
IsId(v) == "num" \in DOMAIN v /\ v.num \in Ids

QueryMatches(item, where) == \A k \in DOMAIN where : GetKey(item, k) = where[k]
Matching(st, where) ==
  {i \in Ids : st[i] # Absent /\ QueryMatches(st[i], where)}
Min(S) == CHOOSE x \in S : \A y \in S : x <= y
\* Resource.get(query, callback): the first item the filter selects
FindOne(st, where) ==
  IF Matching(st, where) = {} THEN Undefined ELSE st[Min(Matching(st, where))]
\* Resource.Collection.get(query, callback): the items the filter selects
RECURSIVE ItemsOf(_, _)
ItemsOf(st, S) ==
  IF S = {} THEN <<>> ELSE <<st[Min(S)]>> \o ItemsOf(st, S \ {Min(S)})
Find(st, where) == ItemsOf(st, Matching(st, where))

\* the stored item a write through the filter `where` with `data` addresses
TargetId(where, data) ==
  IF IsId(GetKey(where, "id")) THEN GetKey(where, "id")
  ELSE IF IsId(GetKey(data, "id")) THEN GetKey(data, "id") ELSE Undefined
\* Resource.put(query, body, callback): the item that replaces the stored one
PutItem(where, data) ==
  IF TargetId(where, data) = Undefined THEN data
  ELSE SetKey(data, "id", TargetId(where, data))
StoreItem(st, item) ==
  IF IsObj(item) /\ ~IsArray(item) /\ IsId(GetKey(item, "id"))
  THEN [st EXCEPT ![item.id.num] = item] ELSE st
RECURSIVE StoreAll(_, _)
StoreAll(st, items) ==
  IF items = <<>> THEN st ELSE StoreAll(StoreItem(st, Head(items)), Tail(items))
RemoveItem(st, item) ==
  IF IsObj(item) /\ IsId(GetKey(item, "id"))
  THEN [st EXCEPT ![item.id.num] = Absent] ELSE st
RemoveAll(st, where) ==
  [i \in Ids |-> IF i \in Matching(st, where) THEN Absent ELSE st[i]]
FreeIds(st) == {i \in Ids : st[i] = Absent}
\* Resource.post(body, callback): the created item, with a fresh id unless
\* the representation carries one
PostItem(st, data) ==
  IF IsId(GetKey(data, "id")) \/ FreeIds(st) = {} THEN data
  ELSE SetKey(data, "id", Num(Min(FreeIds(st))))
RECURSIVE PostAll(_, _)
PostAll(st, reps) ==
  IF reps = <<>> THEN [st |-> st, made |-> <<>>]
  ELSE LET it == PostItem(st, Head(reps))
           rest == PostAll(StoreItem(st, it), Tail(reps))
       IN [st |-> rest.st, made |-> <<it>> \o rest.made]

\* resource.set(attrs): the declared attributes among attrs are assigned
set(resource, attrs) ==
  IF IsArray(attrs) THEN resource
  ELSE [k \in (DOMAIN resource) \cup
              {a \in DOMAIN attrs : \E i \in 1..Len(Attributes) : Attributes[i] = a} |->
          IF k \in DOMAIN attrs THEN attrs[k] ELSE resource[k]]

(***************************************************************************)
(* fast-json-patch (external): jsonpatch.apply(document, patch)            *)
(***************************************************************************)
PatchOp(op, path, value) ==
  [k \in {"op", "path", "value"} |->
     IF k = "op" THEN Str(op) ELSE IF k = "path" THEN Str(path) ELSE value]
ValidOp(o) ==
  /\ ~IsArray(o)
  /\ GetKey(o, "op") \in {Str("replace"), Str("add"), Str("remove")}
  /\ "str" \in DOMAIN GetKey(o, "path")
ApplyOp(doc, o) ==
  IF o.op = Str("remove") THEN DelKey(doc, o.path.str)
  ELSE SetKey(doc, o.path.str, GetKey(o, "value"))
\* applies the operations in order; an operation that is not valid raises,
\* leaving the document as the earlier operations made it
RECURSIVE ApplyOps(_, _)
ApplyOps(doc, ops) ==
  IF ops = <<>> THEN [ok |-> TRUE, doc |-> doc]
  ELSE IF ~ValidOp(Head(ops)) THEN [ok |-> FALSE, doc |-> doc]
       ELSE ApplyOps(ApplyOp(doc, Head(ops)), Tail(ops))
\* patch.length is read first: undefined raises, an object that is not an
\* array has no operations
jsonpatch_apply(doc, patch) ==
  IF patch = Undefined THEN [ok |-> FALSE, doc |-> doc]
  ELSE IF IsArray(patch) THEN ApplyOps(doc, patch.arr)
       ELSE [ok |-> TRUE, doc |-> doc]
\* req.body.length
BodyLength(b) == IF IsArray(b) THEN Len(b.arr) ELSE 0
\* req.body[i], counting from 1
BodyAt(b, i) == IF IsArray(b) /\ i <= Len(b.arr) THEN b.arr[i] ELSE Undefined


(***************************************************************************)
(* Requests                                                                *)
(***************************************************************************)
Reqs == {"r1", "r2"}       \* the request contexts that can be in flight
Methods == {"GET", "POST", "PUT", "PATCH", "DELETE", "OPTIONS", "HEAD"}
IdSegments == {ToString(i) : i \in Ids}
Paths == {<<"users">>, <<"other">>, <<"users", "7a">>, <<"groups", "3", "users">>}
           \cup {<<"users", s>> : s \in IdSegments}

NameObj == [k \in {"name"} |-> Str("jeff")]
ReplaceOp == PatchOp("replace", "name", Str("jeff"))
SeqsUpTo(S, n) == UNION {[1..k -> S] : k \in 0..n}
\* req.body as the body parser leaves it
Bodies(m) ==
  CASE m = "POST" -> {NameObj} \cup {[arr |-> a] : a \in SeqsUpTo({NameObj}, MaxBodyLen)}
    [] m = "PUT" -> {NameObj}
    [] m = "PATCH" -> {NameObj, ReplaceOp}
          \cup {[arr |-> a] : a \in SeqsUpTo({ReplaceOp, [arr |-> <<ReplaceOp>>]}, MaxBodyLen)}
    [] OTHER -> {EmptyObj}

Unread == "unread"
NoHeader == "none"
PreferValues == {NoHeader, "return=representation", "Return=Representation",
                 "return=minimal", "wait=5, return=representation"}
JsonPatchType == "application/json-patch+json"
ContentTypes == {"application/json", JsonPatchType}
\* String.prototype.toLowerCase on the values of the Prefer header
toLowerCase(p) == IF p = "Return=Representation" THEN "return=representation" ELSE p
\* the preferences a value of the Prefer header lists
Preferences(p) ==
  IF p = "wait=5, return=representation"
  THEN {"wait=5", "return=representation"} ELSE {p}
\* prefer && prefer.match(/return=representation/i)
PreferRepresentation(prefer) ==
  /\ prefer # NoHeader
  /\ "return=representation" \in Preferences(toLowerCase(prefer))

NewReq ==
  [pc |-> "idle", method |-> "", path |-> <<>>, body |-> EmptyObj,
   prefer |-> Unread, ctype |-> Unread,
   params |-> EmptyObj, route |-> 0, handler |-> "", where |-> Undefined,
   resource |-> Undefined, status |-> 0,
   fetched |-> Undefined, rep |-> Undefined,
   allow |-> <<>>, location |-> <<>>,
   trace |-> <<>>, obs |-> <<>>, outs |-> <<>>,
   snap |-> Undefined]

\* what listeners can report: an error, and for the action-specific
\* response hooks a replacement of the result
HookErrors == {NoErr, ListenerError}
OpErrors == {NoErr, UpstreamError}
Replacements == {Undefined, Null, Item(0, "jeff")}
CollectionReplacements == {Undefined, [arr |-> <<Item(0, "jeff")>>]}

Log(q, entry) == [q EXCEPT !.trace = Append(@, entry)]
\* this.trigger(event, ..., callback): the listeners observe the request
trigger(q, event, pc) ==
  [q EXCEPT !.pc = pc, !.trace = Append(@, "emit:" \o event),
            !.obs = Append(@, [event |-> event, where |-> q.where, body |-> q.body])]
\* a call of an operation of the resource layer
call(q, op, pc) == [q EXCEPT !.pc = pc, !.trace = Append(@, "op:" \o op)]
\* next(err)
next(q, err) ==
  [q EXCEPT !.pc = "done",
            !.trace = Append(@, IF err = NoErr THEN "next" ELSE "next:error"),
            !.outs = Append(@, [kind |-> "next", status |-> 0, err |-> err,
                                 body |-> Undefined])]
\* res.status(status).send(body) and res.status(status).end()
send(q, status, body) ==
  [q EXCEPT !.pc = "done",
            !.trace = Append(@, "send:" \o ToString(status)),
            !.outs = Append(@, [kind |-> "send", status |-> status, err |-> NoErr,
                                 body |-> body])]
\* an exception nobody in this module catches
throw(q, err) ==
  [q EXCEPT !.pc = "done", !.trace = Append(@, "throw"),
            !.outs = Append(@, [kind |-> "throw", status |-> 0, err |-> err,
                                 body |-> Undefined])]

\* setAllowedActions(path, Resource, res)
RECURSIVE AllowedFrom(_, _)
AllowedFrom(path, us) ==
  IF us = <<>> THEN <<>>
  ELSE (IF path = Head(us).url THEN <<[url |-> Head(us).url]>> ELSE <<>>)
         \o AllowedFrom(path, Tail(us))
setAllowedActions(q, path, u) ==
  [q EXCEPT !.allow = AllowedFrom(path, u.resource),
            !.trace = Append(@, "set:Allow")]

\* req.query.where = req.query.where || {}
WhereOf(q) == IF q.where = Undefined THEN EmptyObj ELSE q.where
MergeWhere(q) == [q EXCEPT !.where = mergeParams(WhereOf(q), q.params)]


(***************************************************************************)
(* Route handlers: the synchronous part each runs when it is invoked       *)
(***************************************************************************)
Truthy(v) ==
  v # Undefined /\ v # Null /\ v # Num(0) /\ v # Str("")
  /\ v # [bool |-> FALSE]

get_entry(q) == trigger(MergeWhere(q), "request", "get/request")
\* exports.post merging the parameters once the listeners have been called
post_entry_MergeAfterTrigger(q) ==
  [trigger(q, "request", "post/request") EXCEPT !.body =
     IF IsArray(q.body)
     THEN [arr |-> [i \in 1..Len(q.body.arr) |->
                      mergeParams(q.body.arr[i], q.params)]]
     ELSE mergeParams(q.body, q.params)]
\* exports.post: the parameters are merged into the body, or into every
\* representation of an array body
post_entry(q) ==
  trigger([q EXCEPT !.body =
             IF IsArray(q.body)
             THEN [arr |-> [i \in 1..Len(q.body.arr) |->
                              mergeParams(q.body.arr[i], q.params)]]
             ELSE mergeParams(q.body, q.params)],
          "request", "post/request")
put_entry(q) == trigger(MergeWhere(q), "request", "put/request")
patch_entry(q) == trigger(MergeWhere(q), "request", "patch/request")
delete_entry(q) == trigger(MergeWhere(q), "request", "delete/request")
collection_get_entry(q) ==
  trigger(MergeWhere(q), "request", "collection.get/request")
collection_patch_entry(q) ==
  trigger(MergeWhere(q), "request", "collection.patch/request")
collection_delete_entry(q) ==
  trigger(MergeWhere(q), "request", "collection.delete/request")

\* the attribute definitions of the resource
AttributeDefs ==
  [a \in {"id", "name", "group_id"} |->
     [serializable |-> Undefined, description |-> Undefined,
      required |-> Undefined]]
\* the schema with a key for every attribute, serializable or not
resource_schema_EveryAttribute(attributes) ==
  [a \in DOMAIN attributes |->
     IF Truthy(attributes[a].description)
     THEN attributes[a].description
     ELSE [required |-> Truthy(attributes[a].required)]]
\* exports.options: the loop that fills body.resource_schema
resource_schema(attributes) ==
  [a \in {x \in DOMAIN attributes :
            attributes[x].serializable # [bool |-> FALSE]} |->
     IF Truthy(attributes[a].description)
     THEN attributes[a].description
     ELSE [required |-> Truthy(attributes[a].required)]]
ResourceSchema == resource_schema(AttributeDefs)
\* this.attributes: the attributes the resource declares
AttributesOf(u) ==
  IF "attributes" \in DOMAIN u THEN u.attributes ELSE AttributeDefs
\* exports.options
options(q, rs, u) ==
  send(setAllowedActions(q, rs[q.route].path, u), 200,
       [resource_schema |-> resource_schema(AttributesOf(u))])
\* exports.methodNotAllowed calling next before the header is set
methodNotAllowed_NextFirst(q, rs, u) ==
  setAllowedActions(next(Log(q, "methodNotAllowed"), MethodNotAllowed),
                    rs[q.route].path, u)
\* exports.methodNotAllowed
methodNotAllowed(q, rs, u) ==
  next(setAllowedActions(Log(q, "methodNotAllowed"), rs[q.route].path, u),
       MethodNotAllowed)

\* matched[i].handler(req, res, next)
handler(q, h, rs, u) ==
  IF h = NoHandler THEN throw(q, TypeError)
  ELSE LET q1 == Log([q EXCEPT !.handler = h], "handler:" \o h)
       IN CASE h = "get" -> get_entry(q1)
            [] h = "post" -> post_entry(q1)
            [] h = "put" -> put_entry(q1)
            [] h = "patch" -> patch_entry(q1)
            [] h = "delete" -> delete_entry(q1)
            [] h = "collection.get" -> collection_get_entry(q1)
            [] h = "collection.patch" -> collection_patch_entry(q1)
            [] h = "collection.delete" -> collection_delete_entry(q1)
            [] OTHER -> options(q1, rs, u)

\* a router that answers a path miss itself
Dispatch_404(q, rs, u) ==
  LET m == match(rs, q.path, q.params)
      q1 == [q EXCEPT !.params = m.params]
      hits == {i \in 1..Len(m.matched) : rs[m.matched[i]].method = q.method}
  IN IF m.matched = <<>> THEN send(q1, 404, Undefined)
     ELSE IF hits # {}
          THEN handler([q1 EXCEPT !.route = m.matched[1]],
                       rs[m.matched[Min(hits)]].handler, rs, u)
          ELSE methodNotAllowed([q1 EXCEPT !.route = m.matched[1]], rs, u)
\* MioExpressRouterMiddleware(req, res, next)
Dispatch(q, rs, u) ==
  LET m == match(rs, q.path, q.params)
      q1 == [q EXCEPT !.params = m.params]
      hits == {i \in 1..Len(m.matched) : rs[m.matched[i]].method = q.method}
  IN IF m.matched = <<>> THEN next(q1, NoErr)
     ELSE IF hits # {}
          THEN handler([q1 EXCEPT !.route = m.matched[1]],
                       rs[m.matched[Min(hits)]].handler, rs, u)
          ELSE methodNotAllowed([q1 EXCEPT !.route = m.matched[1]], rs, u)

(***************************************************************************)
(* Actions                                                                 *)
(***************************************************************************)
Init ==
  /\ urls \in UrlConfigs
  /\ routes = ResourceRouter(urls)
  /\ store \in {st \in [Ids -> Items \cup {Absent}] :
                  \A i \in Ids : st[i] # Absent => st[i].id = Num(i)}
  /\ reqs = [r \in Reqs |-> NewReq]

\* a request reaches Resource.router
Arrive(r) ==
  /\ reqs[r].pc = "idle"
  /\ \E m \in Methods, p \in Paths :
       \E b \in Bodies(m) :
         reqs' = [reqs EXCEPT ![r] =
                    [NewReq EXCEPT !.pc = "arrived", !.method = m,
                                   !.path = p, !.body = b]]
  /\ UNCHANGED <<urls, routes, store>>

\* the request is over (a response was written, next was called or the
\* call threw): req and res are let go
Release(r) ==
  /\ reqs[r].pc = "done"
  /\ reqs' = [reqs EXCEPT ![r] = NewReq]
  /\ UNCHANGED <<urls, routes, store>>

\* a router whose match uses up the key list of every route it matched
MioExpressRouterMiddleware_ConsumesKeys(r) ==
  /\ reqs[r].pc = "arrived"
  /\ reqs' = [reqs EXCEPT ![r] = Dispatch(@, routes, urls)]
  /\ routes' = [i \in 1..Len(routes) |->
                  IF \E k \in 1..Len(match(routes, reqs[r].path,
                                           reqs[r].params).matched) :
                       match(routes, reqs[r].path, reqs[r].params).matched[k] = i
                  THEN [routes[i] EXCEPT !.params = <<>>]
                  ELSE routes[i]]
  /\ UNCHANGED <<urls, store>>
\* a router whose match writes the captured parameters into one object
\* that every request shares
MioExpressRouterMiddleware_SharedParams(r) ==
  /\ reqs[r].pc = "arrived"
  /\ reqs' = [s \in Reqs |->
               IF s = r THEN Dispatch(reqs[r], routes, urls)
               ELSE [reqs[s] EXCEPT
                       !.params = Dispatch(reqs[r], routes, urls).params]]
  /\ UNCHANGED <<urls, routes, store>>
\* the router runs for the request, up to the first asynchronous call of
\* the handler it invokes
MioExpressRouterMiddleware(r) ==
  /\ reqs[r].pc = "arrived"
  /\ reqs' = [reqs EXCEPT ![r] = Dispatch(@, routes, urls)]
  /\ UNCHANGED <<urls, routes, store>>

\* the callback of this.trigger(event, ..., callback)
AfterHook(r, event, Then(_)) ==
  /\ \E err \in HookErrors :
       reqs' = [reqs EXCEPT ![r] =
                  IF err # NoErr THEN next(@, err)
                  ELSE Then(Log(@, "ok:" \o event))]
  /\ UNCHANGED <<urls, routes, store>>

\* the callback of an operation of the resource layer that reads the store
AfterRead(r, Then(_)) ==
  /\ \E err \in OpErrors :
       reqs' = [reqs EXCEPT ![r] =
                  IF err # NoErr THEN next(reqs[r], err) ELSE Then(reqs[r])]
  /\ UNCHANGED <<urls, routes, store>>

\* var prefer = req.get('prefer'): the header is drawn when it is read
ReadPrefer(q, p) == [q EXCEPT !.prefer = p]
\* a comparison of the Prefer header that minds the case
Respond_CaseSensitive(q, body) ==
  IF q.prefer # NoHeader /\ "return=representation" \in Preferences(q.prefer)
  THEN send(q, 200, body)
  ELSE send(q, 204, Undefined)
\* support RFC 7240 `Prefer` header
Respond(q, body) ==
  IF PreferRepresentation(q.prefer) THEN send(q, 200, body)
  ELSE send(q, 204, Undefined)
\* a result the action-specific response listener replaces
Replaced(rep, result) == IF rep # Undefined THEN rep ELSE result

(***** exports.get *****)
get_request(r) ==
  /\ reqs[r].pc = "get/request"
  /\ AfterHook(r, "request",
            LAMBDA q : trigger(q, "request:get", "get/request:get"))
get_request_get(r) ==
  /\ reqs[r].pc = "get/request:get"
  /\ AfterHook(r, "request:get",
            LAMBDA q : call(q, "get", "get/get"))
get_get(r) ==
  /\ reqs[r].pc = "get/get"
  /\ AfterRead(r,
            LAMBDA q : trigger([Log(q, "ok:get") EXCEPT
                                  !.resource = FindOne(store, q.where),
                                  !.fetched = FindOne(store, q.where)],
                               "response", "get/response"))
get_response(r) ==
  /\ reqs[r].pc = "get/response"
  /\ AfterHook(r, "response",
            LAMBDA q : trigger(q, "response:get", "get/response:get"))
\* exports.get answering without a body
get_response_get_NoBody(r) ==
  /\ reqs[r].pc = "get/response:get"
  /\ \E err \in HookErrors, rep \in Replacements :
       LET q == [Log(reqs[r], "ok:response:get") EXCEPT !.rep = rep]
           resource == Replaced(rep, q.resource)
       IN reqs' = [reqs EXCEPT ![r] =
                     IF err # NoErr THEN next(reqs[r], err)
                     ELSE IF Truthy(resource) THEN send(q, 204, Undefined)
                          ELSE next(q, NotFound)]
  /\ UNCHANGED <<urls, routes, store>>
get_response_get(r) ==
  /\ reqs[r].pc = "get/response:get"
  /\ \E err \in HookErrors, rep \in Replacements :
       LET q == [Log(reqs[r], "ok:response:get") EXCEPT !.rep = rep]
           resource == Replaced(rep, q.resource)
       IN reqs' = [reqs EXCEPT ![r] =
                     IF err # NoErr THEN next(reqs[r], err)
                     ELSE IF Truthy(resource) THEN send(q, 200, resource)
                          ELSE next(q, NotFound)]
  /\ UNCHANGED <<urls, routes, store>>

(***** exports.post *****)
\* result.url('get') with its placeholders replaced
RECURSIVE LocationOf(_, _)
LocationOf(t, resource) ==
  IF t = <<>> THEN <<>>
  ELSE LET seg == Head(t)
           attr == IF seg.param = "primary" THEN primaryKey ELSE seg.param
           v == GetKey(resource, attr)
       IN <<IF "lit" \in DOMAIN seg THEN seg.lit
            ELSE IF attr \in DOMAIN AttributeDefs /\ Truthy(v)
                 THEN IF "num" \in DOMAIN v THEN ToString(v.num) ELSE v.str
                 ELSE attr>>
          \o LocationOf(Tail(t), resource)
UrlFor(us, key) ==
  IF \E i \in 1..Len(us) : us[i].key = key
  THEN us[CHOOSE i \in 1..Len(us) : us[i].key = key].url ELSE <<>>
\* the resource layer can create the representations of the body
CanCreate(st, body) ==
  IF IsArray(body) THEN Len(body.arr) <= Cardinality(FreeIds(st))
  ELSE IsId(GetKey(body, "id")) \/ FreeIds(st) # {}
post_request(r) ==
  /\ reqs[r].pc = "post/request"
  /\ AfterHook(r, "request",
            LAMBDA q : trigger(q, "request:post", "post/request:post"))
post_request_post(r) ==
  /\ reqs[r].pc = "post/request:post"
  /\ AfterHook(r, "request:post",
            LAMBDA q : call(q, IF IsArray(q.body) THEN "collection.post"
                               ELSE "post", "post/post"))
post_post(r) ==
  /\ reqs[r].pc = "post/post"
  /\ \E err \in OpErrors :
       LET q == reqs[r]
           isArray == IsArray(q.body)
           made == IF isArray THEN PostAll(store, q.body.arr)
                   ELSE [st |-> StoreItem(store, PostItem(store, q.body)),
                         made |-> <<PostItem(store, q.body)>>]
           result == IF isArray THEN [arr |-> made.made] ELSE made.made[1]
           location == UrlFor(IF isArray THEN urls.collection
                              ELSE urls.resource, "get")
           resource == IF isArray
                       THEN (IF made.made = <<>> THEN Undefined
                             ELSE made.made[1])
                       ELSE result
           q1 == [Log(q, "ok:post") EXCEPT !.resource = result]
           q2 == IF location # <<>> /\ resource # Undefined
                 THEN [Log(q1, "set:Location") EXCEPT
                         !.location = LocationOf(location, resource)]
                 ELSE q1
       IN IF err # NoErr
          THEN /\ reqs' = [reqs EXCEPT ![r] = next(q, err)]
               /\ UNCHANGED store
          ELSE /\ CanCreate(store, q.body)
               /\ store' = made.st
               /\ reqs' = [reqs EXCEPT ![r] =
                             trigger(q2, "response", "post/response")]
  /\ UNCHANGED <<urls, routes>>
post_response(r) ==
  /\ reqs[r].pc = "post/response"
  /\ AfterHook(r, "response",
            LAMBDA q : trigger(q, "response:post", "post/response:post"))
post_response_post(r) ==
  /\ reqs[r].pc = "post/response:post"
  /\ \E err \in HookErrors,
        rep \in IF IsArray(reqs[r].body) THEN CollectionReplacements
                ELSE Replacements :
       LET q == [Log(reqs[r], "ok:response:post") EXCEPT !.rep = rep]
       IN reqs' = [reqs EXCEPT ![r] =
                     IF err # NoErr THEN next(reqs[r], err)
                     ELSE send(q, 201, Replaced(rep, q.resource))]
  /\ UNCHANGED <<urls, routes, store>>

(***** exports.put *****)
put_request(r) ==
  /\ reqs[r].pc = "put/request"
  /\ AfterHook(r, "request",
            LAMBDA q : trigger(q, "request:put", "put/request:put"))
\* the callback of request:put with `if (err) next(err);` and no return
put_request_put_NoReturn(r) ==
  /\ reqs[r].pc = "put/request:put"
  /\ \E err \in HookErrors :
       reqs' = [reqs EXCEPT ![r] =
                  IF err # NoErr THEN call(next(@, err), "get", "put/get")
                  ELSE call(Log(@, "ok:request:put"), "get", "put/get")]
  /\ UNCHANGED <<urls, routes, store>>
\* the callback of request:put: the item is looked up
put_request_put(r) ==
  /\ reqs[r].pc = "put/request:put"
  /\ AfterHook(r, "request:put",
            LAMBDA q : call(q, "get", "put/get"))
\* exports.put that takes every PUT for a creation
put_get_AlwaysCreated(r) ==
  /\ reqs[r].pc = "put/get"
  /\ AfterRead(r,
            LAMBDA q : call([Log(q, "ok:get") EXCEPT
                               !.fetched = FindOne(store, q.where),
                               !.status = 201],
                            "put", "put/put"))
put_get(r) ==
  /\ reqs[r].pc = "put/get"
  /\ AfterRead(r,
            LAMBDA q : call([Log(q, "ok:get") EXCEPT
                               !.fetched = FindOne(store, q.where),
                               !.status = IF Truthy(FindOne(store, q.where))
                                          THEN 204 ELSE 201],
                            "put", "put/put"))
\* a persist step that looks again whether the item exists when it writes
put_put_Recheck(r) ==
  /\ reqs[r].pc = "put/put"
  /\ \E err \in OpErrors, prefer \in PreferValues :
       LET q == reqs[r]
           resource == PutItem(q.where, q.body)
       IN IF err # NoErr
          THEN /\ reqs' = [reqs EXCEPT ![r] = next(q, err)]
               /\ UNCHANGED store
          ELSE /\ store' = StoreItem(store, resource)
               /\ reqs' = [reqs EXCEPT ![r] =
                    trigger(ReadPrefer([Log(q, "ok:put") EXCEPT
                                          !.resource = resource,
                                          !.status =
                                            IF Truthy(FindOne(store, q.where))
                                            THEN 204 ELSE 201], prefer),
                            "response", "put/response")]
  /\ UNCHANGED <<urls, routes>>
\* the callback of Resource.put: the persist step of exports.put
put_put(r) ==
  /\ reqs[r].pc = "put/put"
  /\ \E err \in OpErrors, prefer \in PreferValues :
       LET q == reqs[r]
           resource == PutItem(q.where, q.body)
       IN IF err # NoErr
          THEN /\ reqs' = [reqs EXCEPT ![r] = next(q, err)]
               /\ UNCHANGED store
          ELSE /\ store' = StoreItem(store, resource)
               /\ reqs' = [reqs EXCEPT ![r] =
                    trigger(ReadPrefer([Log(q, "ok:put") EXCEPT
                                          !.resource = resource], prefer),
                            "response", "put/response")]
  /\ UNCHANGED <<urls, routes>>
put_response(r) ==
  /\ reqs[r].pc = "put/response"
  /\ AfterHook(r, "response",
            LAMBDA q : trigger(q, "response:put", "put/response:put"))
put_response_put(r) ==
  /\ reqs[r].pc = "put/response:put"
  /\ \E err \in HookErrors, rep \in Replacements :
       LET q == [Log(reqs[r], "ok:response:put") EXCEPT !.rep = rep]
           resource == Replaced(rep, q.resource)
       IN reqs' = [reqs EXCEPT ![r] =
                     IF err # NoErr THEN next(reqs[r], err)
                     ELSE IF q.status = 201 THEN send(q, 201, resource)
                          ELSE Respond(q, resource)]
  /\ UNCHANGED <<urls, routes, store>>

(***** exports.patch *****)
\* the body of the `if (resource)` block: the JSON-Patch document of the
\* body, or its fields, change the fetched resource in memory
Patched(resource, body, ctype) ==
  IF ctype = JsonPatchType
  THEN IF BodyLength(body) # 0 THEN jsonpatch_apply(resource, body)
       ELSE jsonpatch_apply(resource, [arr |-> <<body>>])
  ELSE [ok |-> TRUE, doc |-> set(resource, body)]
patch_request(r) ==
  /\ reqs[r].pc = "patch/request"
  /\ AfterHook(r, "request",
            LAMBDA q : trigger(q, "request:patch", "patch/request:patch"))
patch_request_patch(r) ==
  /\ reqs[r].pc = "patch/request:patch"
  /\ AfterHook(r, "request:patch",
            LAMBDA q : call(q, "get", "patch/get"))
\* exports.patch without the try/catch around jsonpatch.apply
patch_get_NoCatch(r) ==
  /\ reqs[r].pc = "patch/get"
  /\ \E err \in OpErrors, ctype \in ContentTypes :
       LET q == reqs[r]
           resource == FindOne(store, q.where)
           q1 == [Log(q, "ok:get") EXCEPT !.resource = resource,
                                          !.fetched = resource]
           res == Patched(resource, q.body, ctype)
       IN reqs' = [reqs EXCEPT ![r] =
            IF err # NoErr THEN next(q, err)
            ELSE IF Truthy(resource)
                 THEN IF ~res.ok
                      THEN throw([q1 EXCEPT !.ctype = ctype], TypeError)
                      ELSE trigger([q1 EXCEPT !.ctype = ctype,
                                              !.resource = res.doc],
                                   "response", "patch/response")
                 ELSE trigger(q1, "response", "patch/response")]
  /\ UNCHANGED <<urls, routes, store>>
patch_get(r) ==
  /\ reqs[r].pc = "patch/get"
  /\ \E err \in OpErrors, ctype \in ContentTypes :
       LET q == reqs[r]
           resource == FindOne(store, q.where)
           q1 == [Log(q, "ok:get") EXCEPT !.resource = resource,
                                          !.fetched = resource]
           res == Patched(resource, q.body, ctype)
       IN reqs' = [reqs EXCEPT ![r] =
            IF err # NoErr THEN next(q, err)
            ELSE IF Truthy(resource)
                 THEN IF ~res.ok
                      THEN next([q1 EXCEPT !.ctype = ctype], BadRequest)
                      ELSE trigger([q1 EXCEPT !.ctype = ctype,
                                              !.resource = res.doc],
                                   "response", "patch/response")
                 ELSE trigger(q1, "response", "patch/response")]
  /\ UNCHANGED <<urls, routes, store>>
patch_response(r) ==
  /\ reqs[r].pc = "patch/response"
  /\ AfterHook(r, "response",
            LAMBDA q : trigger(q, "response:patch", "patch/response:patch"))
\* the callback of response:patch with `if (err) next(err);` and no return
patch_response_patch_NoReturn(r) ==
  /\ reqs[r].pc = "patch/response:patch"
  /\ \E err \in HookErrors, rep \in Replacements :
       LET q == [Log(reqs[r], "ok:response:patch") EXCEPT !.rep = rep]
           q1 == IF err # NoErr THEN next(q, err) ELSE q
           resource == Replaced(rep, q.resource)
       IN reqs' = [reqs EXCEPT ![r] =
                     IF Truthy(resource)
                     THEN call([q1 EXCEPT !.resource = resource],
                               "patch", "patch/patch")
                     ELSE next(q1, NotFound)]
  /\ UNCHANGED <<urls, routes, store>>
\* the callback of response:patch: the resource the listeners leave is
\* persisted, or the request ends with 404
patch_response_patch(r) ==
  /\ reqs[r].pc = "patch/response:patch"
  /\ \E err \in HookErrors, rep \in Replacements :
       LET q == [Log(reqs[r], "ok:response:patch") EXCEPT !.rep = rep]
           resource == Replaced(rep, q.resource)
       IN reqs' = [reqs EXCEPT ![r] =
                     IF err # NoErr THEN next(reqs[r], err)
                     ELSE IF Truthy(resource)
                          THEN call([q EXCEPT !.resource = resource],
                                    "patch", "patch/patch")
                          ELSE next(q, NotFound)]
  /\ UNCHANGED <<urls, routes, store>>
\* a persist step that writes only when the stored item is still the one
\* the handler fetched
patch_patch_CompareAndSwap(r) ==
  /\ reqs[r].pc = "patch/patch"
  /\ \E err \in OpErrors, prefer \in PreferValues :
       LET q == reqs[r]
       IN IF err # NoErr
          THEN /\ reqs' = [reqs EXCEPT ![r] = next(q, err)]
               /\ UNCHANGED store
          ELSE IF FindOne(store, q.where) # q.fetched
               THEN /\ reqs' = [reqs EXCEPT ![r] = next(q, "409 Conflict")]
                    /\ UNCHANGED store
               ELSE /\ store' = StoreItem(store, q.resource)
                    /\ reqs' = [reqs EXCEPT ![r] =
                         Respond(ReadPrefer(Log(q, "ok:patch"), prefer),
                                 q.resource)]
  /\ UNCHANGED <<urls, routes>>
\* the callback of resource.patch: the persist step of exports.patch
patch_patch(r) ==
  /\ reqs[r].pc = "patch/patch"
  /\ \E err \in OpErrors, prefer \in PreferValues :
       LET q == reqs[r]
       IN IF err # NoErr
          THEN /\ reqs' = [reqs EXCEPT ![r] = next(q, err)]
               /\ UNCHANGED store
          ELSE /\ store' = StoreItem(store, q.resource)
               /\ reqs' = [reqs EXCEPT ![r] =
                    Respond(ReadPrefer(Log(q, "ok:patch"), prefer),
                            q.resource)]
  /\ UNCHANGED <<urls, routes>>

(***** exports.delete *****)
delete_request(r) ==
  /\ reqs[r].pc = "delete/request"
  /\ AfterHook(r, "request",
            LAMBDA q : trigger(q, "request:delete", "delete/request:delete"))
delete_request_delete(r) ==
  /\ reqs[r].pc = "delete/request:delete"
  /\ AfterHook(r, "request:delete",
            LAMBDA q : call(q, "get", "delete/get"))
\* exports.delete passing a missing item on with an argument-less next()
delete_get_NextWithoutError(r) ==
  /\ reqs[r].pc = "delete/get"
  /\ AfterRead(r,
            LAMBDA q : IF ~Truthy(FindOne(store, q.where))
                       THEN next(Log(q, "ok:get"), NoErr)
                       ELSE call([Log(q, "ok:get") EXCEPT
                                    !.resource = FindOne(store, q.where),
                                    !.fetched = FindOne(store, q.where)],
                                 "delete", "delete/delete"))
\* the callback of this.get in exports.delete
delete_get(r) ==
  /\ reqs[r].pc = "delete/get"
  /\ AfterRead(r,
            LAMBDA q : IF ~Truthy(FindOne(store, q.where))
                       THEN next(Log(q, "ok:get"), NotFound)
                       ELSE call([Log(q, "ok:get") EXCEPT
                                    !.resource = FindOne(store, q.where),
                                    !.fetched = FindOne(store, q.where)],
                                 "delete", "delete/delete"))
delete_delete(r) ==
  /\ reqs[r].pc = "delete/delete"
  /\ \E err \in OpErrors :
       LET q == reqs[r]
       IN IF err # NoErr
          THEN /\ reqs' = [reqs EXCEPT ![r] = next(q, err)]
               /\ UNCHANGED store
          ELSE /\ store' = RemoveItem(store, q.resource)
               /\ reqs' = [reqs EXCEPT ![r] =
                    trigger(Log(q, "ok:delete"), "response",
                            "delete/response")]
  /\ UNCHANGED <<urls, routes>>
\* exports.delete that skips the action-specific response hook
delete_response_NoActionHook(r) ==
  /\ reqs[r].pc = "delete/response"
  /\ AfterHook(r, "response", LAMBDA q : send(q, 204, Undefined))
delete_response(r) ==
  /\ reqs[r].pc = "delete/response"
  /\ AfterHook(r, "response",
            LAMBDA q : trigger(q, "response:delete", "delete/response:delete"))
\* the callback of response:delete that puts the removed item back when the
\* listener reports an error
delete_response_delete_Rollback(r) ==
  /\ reqs[r].pc = "delete/response:delete"
  /\ \E err \in HookErrors :
       /\ reqs' = [reqs EXCEPT ![r] =
                     IF err # NoErr THEN next(@, err)
                     ELSE send(Log(@, "ok:response:delete"), 204, Undefined)]
       /\ store' = IF err # NoErr THEN StoreItem(store, reqs[r].resource)
                   ELSE store
  /\ UNCHANGED <<urls, routes>>
\* the callback of response:delete: the response is written
delete_response_delete(r) ==
  /\ reqs[r].pc = "delete/response:delete"
  /\ AfterHook(r, "response:delete",
            LAMBDA q : send(q, 204, Undefined))

(***** exports.collection.get *****)
collection_get_request(r) ==
  /\ reqs[r].pc = "collection.get/request"
  /\ AfterHook(r, "request",
            LAMBDA q : trigger(q, "request:collection:get",
                               "collection.get/request:get"))
collection_get_request_get(r) ==
  /\ reqs[r].pc = "collection.get/request:get"
  /\ AfterHook(r, "request:collection:get",
            LAMBDA q : call(q, "collection.get", "collection.get/get"))
collection_get_get(r) ==
  /\ reqs[r].pc = "collection.get/get"
  /\ AfterRead(r,
            LAMBDA q : trigger([Log(q, "ok:collection.get") EXCEPT
                                  !.resource = [arr |-> Find(store, q.where)]],
                               "response", "collection.get/response"))
collection_get_response(r) ==
  /\ reqs[r].pc = "collection.get/response"
  /\ AfterHook(r, "response",
            LAMBDA q : trigger(q, "response:collection:get",
                               "collection.get/response:get"))
collection_get_response_get(r) ==
  /\ reqs[r].pc = "collection.get/response:get"
  /\ \E err \in HookErrors, rep \in CollectionReplacements :
       LET q == [Log(reqs[r], "ok:response:collection:get") EXCEPT !.rep = rep]
       IN reqs' = [reqs EXCEPT ![r] =
                     IF err # NoErr THEN next(reqs[r], err)
                     ELSE send(q, 200, Replaced(rep, q.resource))]
  /\ UNCHANGED <<urls, routes, store>>

(***** exports.collection.patch *****)
\* resources.forEach: every fetched resource is changed in memory, up to
\* the first one whose patch raises
RECURSIVE PatchedEach(_, _, _, _)
PatchedEach(resources, i, body, ctype) ==
  IF i > Len(resources) THEN [ok |-> TRUE, docs |-> resources]
  ELSE LET res == IF ctype = JsonPatchType
                  THEN IF BodyLength(body) # 0
                       THEN jsonpatch_apply(resources[i], BodyAt(body, i))
                       ELSE jsonpatch_apply(resources[i], [arr |-> <<body>>])
                  ELSE [ok |-> TRUE, doc |-> set(resources[i], body)]
       IN IF ~res.ok THEN [ok |-> FALSE, docs |-> resources]
          ELSE PatchedEach([resources EXCEPT ![i] = res.doc], i + 1, body,
                           ctype)
collection_patch_request(r) ==
  /\ reqs[r].pc = "collection.patch/request"
  /\ AfterHook(r, "request",
            LAMBDA q : trigger(q, "request:collection:patch",
                               "collection.patch/request:patch"))
collection_patch_request_patch(r) ==
  /\ reqs[r].pc = "collection.patch/request:patch"
  /\ AfterHook(r, "request:collection:patch",
            LAMBDA q : call(q, "collection.get", "collection.patch/get"))
collection_patch_get(r) ==
  /\ reqs[r].pc = "collection.patch/get"
  /\ \E err \in OpErrors, ctype \in ContentTypes :
       LET q == reqs[r]
           res == PatchedEach(Find(store, q.where), 1, q.body, ctype)
           q1 == [Log(q, "ok:collection.get") EXCEPT
                    !.ctype = ctype, !.resource = [arr |-> res.docs]]
       IN reqs' = [reqs EXCEPT ![r] =
                     IF err # NoErr THEN next(q, err)
                     ELSE IF ~res.ok THEN throw(q1, TypeError)
                          ELSE call(q1, "patch", "collection.patch/patch")]
  /\ UNCHANGED <<urls, routes, store>>
collection_patch_patch(r) ==
  /\ reqs[r].pc = "collection.patch/patch"
  /\ \E err \in OpErrors, prefer \in PreferValues :
       LET q == reqs[r]
       IN IF err # NoErr
          THEN /\ reqs' = [reqs EXCEPT ![r] = next(q, err)]
               /\ UNCHANGED store
          ELSE /\ store' = StoreAll(store, q.resource.arr)
               /\ reqs' = [reqs EXCEPT ![r] =
                    trigger(ReadPrefer(Log(q, "ok:patch"), prefer),
                            "response", "collection.patch/response")]
  /\ UNCHANGED <<urls, routes>>
collection_patch_response(r) ==
  /\ reqs[r].pc = "collection.patch/response"
  /\ AfterHook(r, "response",
            LAMBDA q : trigger(q, "response:collection:patch",
                               "collection.patch/response:patch"))
collection_patch_response_patch(r) ==
  /\ reqs[r].pc = "collection.patch/response:patch"
  /\ \E err \in HookErrors, rep \in CollectionReplacements :
       LET q == [Log(reqs[r], "ok:response:collection:patch") EXCEPT !.rep = rep]
       IN reqs' = [reqs EXCEPT ![r] =
                     IF err # NoErr THEN next(reqs[r], err)
                     ELSE Respond(q, Replaced(rep, q.resource))]
  /\ UNCHANGED <<urls, routes, store>>

(***** exports.collection.delete *****)
collection_delete_request(r) ==
  /\ reqs[r].pc = "collection.delete/request"
  /\ AfterHook(r, "request",
            LAMBDA q : trigger(q, "request:collection:delete",
                               "collection.delete/request:delete"))
collection_delete_request_delete(r) ==
  /\ reqs[r].pc = "collection.delete/request:delete"
  /\ AfterHook(r,
            "request:collection:delete",
            LAMBDA q : call(q, "collection.delete",
                            "collection.delete/delete"))
collection_delete_delete(r) ==
  /\ reqs[r].pc = "collection.delete/delete"
  /\ \E err \in OpErrors :
       LET q == reqs[r]
       IN IF err # NoErr
          THEN /\ reqs' = [reqs EXCEPT ![r] = next(q, err)]
               /\ UNCHANGED store
          ELSE /\ store' = RemoveAll(store, q.where)
               /\ reqs' = [reqs EXCEPT ![r] =
                    trigger(Log(q, "ok:collection.delete"), "response",
                            "collection.delete/response")]
  /\ UNCHANGED <<urls, routes>>
collection_delete_response(r) ==
  /\ reqs[r].pc = "collection.delete/response"
  /\ AfterHook(r, "response",
            LAMBDA q : trigger(q, "response:collection:delete",
                               "collection.delete/response:delete"))
collection_delete_response_delete(r) ==
  /\ reqs[r].pc = "collection.delete/response:delete"
  /\ AfterHook(r,
            "response:collection:delete",
            LAMBDA q : send(q, 204, Undefined))

\* the callbacks of the listeners and of the resource operations
HandlerStep(r) ==
  \/ get_request(r) \/ get_request_get(r) \/ get_get(r)
  \/ get_response(r) \/ get_response_get(r)
  \/ post_request(r) \/ post_request_post(r) \/ post_post(r)
  \/ post_response(r) \/ post_response_post(r)
  \/ put_request(r) \/ put_request_put(r) \/ put_get(r) \/ put_put(r)
  \/ put_response(r) \/ put_response_put(r)
  \/ patch_request(r) \/ patch_request_patch(r) \/ patch_get(r)
  \/ patch_response(r) \/ patch_response_patch(r) \/ patch_patch(r)
  \/ delete_request(r) \/ delete_request_delete(r) \/ delete_get(r)
  \/ delete_delete(r) \/ delete_response(r) \/ delete_response_delete(r)
  \/ collection_get_request(r) \/ collection_get_request_get(r)
  \/ collection_get_get(r) \/ collection_get_response(r)
  \/ collection_get_response_get(r)
  \/ collection_patch_request(r) \/ collection_patch_request_patch(r)
  \/ collection_patch_get(r) \/ collection_patch_patch(r)
  \/ collection_patch_response(r) \/ collection_patch_response_patch(r)
  \/ collection_delete_request(r) \/ collection_delete_request_delete(r)
  \/ collection_delete_delete(r) \/ collection_delete_response(r)
  \/ collection_delete_response_delete(r)
Step(r) ==
  \/ Arrive(r)
  \/ Release(r)
  \/ MioExpressRouterMiddleware(r)
  \/ HandlerStep(r)

Next == \E r \in {"r1"} : Step(r)

Spec == Init /\ [][Next]_vars

\* One request followed to its end.  Every listener and every resource
\* operation invokes the callback it was given: a request a handler is
\* working on takes its next step.
LiveNext ==
  \E r \in {"r1"} :
    Arrive(r) \/ MioExpressRouterMiddleware(r) \/ HandlerStep(r)
LiveSpec ==
  Init /\ [][LiveNext]_vars /\ \A r \in {"r1"} : WF_vars(HandlerStep(r))

(***************************************************************************)
(* match and mergeParams called on their own, over templates, paths,       *)
(* targets and parameter maps that no url map of the requests above holds. *)
(***************************************************************************)
GroupItemT == <<Lit("groups"), Param("group_id"), Lit("users"), Param("id")>>
OrgT == <<Lit("orgs"), Param("org"), Lit("users")>>
Templates == {CollectionT, PrimaryT, IdT, GroupT, GroupItemT, OrgT}
Segments == {"users", "groups", "orgs", "3", "7a", "42"}
\* req.path: up to as many segments as the longest template has
CalledPaths ==
  UNION {[1..n -> Segments] : n \in 1..Len(GroupItemT)}
\* req.params as a router hands them over
ParamMaps ==
  UNION {[ks -> {Str("3"), Str("7a"), Str("42")}] :
           ks \in SUBSET {"primary", "id", "group_id", "org"}}
\* a query or a payload before the merge
Targets ==
  {EmptyObj, NameObj,
   [k \in {"id", "org"} |-> IF k = "id" THEN Num(1) ELSE Str("acme")]}

CallInit ==
  /\ urls \in {[resource |-> <<Url("get", t)>>, collection |-> <<>>] :
                t \in Templates}
  /\ routes = ResourceRouter(urls)
  /\ store = [i \in Ids |-> Absent]
  /\ \/ \E p \in CalledPaths :
          reqs = [r \in Reqs |->
                    IF r = "r1"
                    THEN [NewReq EXCEPT !.pc = "call:match", !.path = p]
                    ELSE NewReq]
     \/ \E t \in Targets :
          reqs = [r \in Reqs |->
                    IF r = "r1"
                    THEN [NewReq EXCEPT !.pc = "call:mergeParams",
                                        !.where = t, !.body = t]
                    ELSE NewReq]
\* router.match(req)
CallMatch(r) ==
  /\ reqs[r].pc = "call:match"
  /\ LET m == match(routes, reqs[r].path, reqs[r].params)
     IN reqs' = [reqs EXCEPT ![r].pc = "matched",
                             ![r].params = m.params,
                             ![r].route = IF m.matched = <<>> THEN 0
                                          ELSE m.matched[1]]
  /\ UNCHANGED <<urls, routes, store>>
\* mergeParams(Resource, target, req.params)
CallMergeParams(r) ==
  /\ reqs[r].pc = "call:mergeParams"
  /\ \E M \in ParamMaps :
       reqs' = [reqs EXCEPT ![r].pc = "merged",
                            ![r].params = M,
                            ![r].where = mergeParams(reqs[r].where, M)]
  /\ UNCHANGED <<urls, routes, store>>
CallNext == \E r \in {"r1"} : CallMatch(r) \/ CallMergeParams(r)
CallSpec == CallInit /\ [][CallNext]_vars

(***************************************************************************)
(* Two requests in flight at once.  Node runs one callback at a time, so   *)
(* the steps of the two handlers interleave at their asynchronous calls:   *)
(* every action above is one such step.  Each request is handled once and  *)
(* its context is kept, so that what both did can be told afterwards.      *)
(***************************************************************************)
GroupObj == [k \in {"group_id"} |-> Num(3)]
\* the requests that meet: reads of either item, writes to item 1
RaceRequests ==
  {[method |-> "GET", path |-> <<"users", s>>, body |-> EmptyObj] :
     s \in {"0", "1"}}
    \cup {[method |-> m, path |-> <<"users", "1">>, body |-> b] :
            m \in {"PUT", "PATCH"}, b \in {NameObj, GroupObj}}
RaceStores ==
  {st \in [Ids -> Items \cup {Absent}] :
     /\ st[0] = Item(0, "bob")
     /\ st[1] \in {Absent, Item(1, "bob")}
     /\ \A i \in Ids \ {0, 1} : st[i] = Absent}

RaceInit ==
  /\ urls \in UrlConfigs
  /\ routes = ResourceRouter(urls)
  /\ store \in RaceStores
  /\ reqs = [r \in Reqs |-> NewReq]
\* a request reaches Resource.router while another may be under way; what
\* the store held then, and which requests were over, is noted with it
RaceArrive(r) ==
  /\ reqs[r].pc = "idle"
  /\ \E a \in RaceRequests :
       reqs' = [reqs EXCEPT ![r] =
                  [NewReq EXCEPT !.pc = "arrived", !.method = a.method,
                                 !.path = a.path, !.body = a.body,
                                 !.snap = [store |-> store,
                                           after |-> {s \in Reqs :
                                                        reqs[s].pc = "done"}]]]
  /\ UNCHANGED <<urls, routes, store>>
RaceStep(r) ==
  \/ RaceArrive(r)
  \/ MioExpressRouterMiddleware(r)
  \/ get_request(r) \/ get_request_get(r) \/ get_get(r)
  \/ get_response(r) \/ get_response_get(r)
  \/ put_request(r) \/ put_request_put(r) \/ put_get(r) \/ put_put(r)
  \/ put_response(r) \/ put_response_put(r)
  \/ patch_request(r) \/ patch_request_patch(r) \/ patch_get(r)
  \/ patch_response(r) \/ patch_response_patch(r) \/ patch_patch(r)
RaceNext == \E r \in Reqs : RaceStep(r)
RaceSpec == RaceInit /\ [][RaceNext]_vars

(***************************************************************************)
(* A client that creates an item and then fetches the URL the response     *)
(* named in its Location header.                                           *)
(***************************************************************************)
RoundTripInit ==
  /\ urls \in UrlConfigs
  /\ routes = ResourceRouter(urls)
  /\ store \in {st \in [Ids -> {Item(i, "bob") : i \in Ids} \cup {Absent}] :
                  /\ \A i \in Ids : st[i] # Absent => st[i].id = Num(i)
                  /\ FreeIds(st) # {}}
  /\ reqs = [r \in Reqs |-> NewReq]
\* POST of one representation to the path of the post template
Create(r) ==
  /\ reqs[r].pc = "idle"
  /\ \A s \in Reqs : reqs[s].pc = "idle"
  /\ reqs' = [reqs EXCEPT ![r] =
                [NewReq EXCEPT !.pc = "arrived", !.method = "POST",
                               !.path = IF UrlFor(urls.resource, "post") = GroupT
                                        THEN <<"groups", "3", "users">>
                                        ELSE <<"users">>,
                               !.body = NameObj,
                               !.snap = [store |-> store, after |-> {}]]]
  /\ UNCHANGED <<urls, routes, store>>
\* GET of the path the Location header of the 201 response names
Fetch(r) ==
  /\ reqs[r].pc = "idle"
  /\ \E c \in Reqs :
       /\ Len(reqs[c].outs) = 1 /\ reqs[c].outs[1].status = 201
       /\ reqs[c].location # <<>>
       /\ reqs' = [reqs EXCEPT ![r] =
                     [NewReq EXCEPT !.pc = "arrived", !.method = "GET",
                                    !.path = reqs[c].location,
                                    !.snap = [store |-> store, after |-> {c}]]]
  /\ UNCHANGED <<urls, routes, store>>
RoundTripStep(r) ==
  \/ Create(r)
  \/ Fetch(r)
  \/ MioExpressRouterMiddleware(r)
  \/ post_request(r) \/ post_request_post(r) \/ post_post(r)
  \/ post_response(r) \/ post_response_post(r)
  \/ get_request(r) \/ get_request_get(r) \/ get_get(r)
  \/ get_response(r) \/ get_response_get(r)
RoundTripNext == \E r \in Reqs : RoundTripStep(r)
RoundTripSpec == RoundTripInit /\ [][RoundTripNext]_vars

(***************************************************************************)
(* Describe: OPTIONS requests to a resource whose attributes are declared  *)
(* with or without serializable, description and required.                 *)
(***************************************************************************)
Declarations ==
  [serializable : {Undefined, [bool |-> FALSE], [bool |-> TRUE]},
   description : {Undefined, Str(""), Str("the name")},
   required : {Undefined, [bool |-> FALSE], [bool |-> TRUE]}]
AttributeDeclarations ==
  {[a \in DOMAIN AttributeDefs |->
      IF a = "name" THEN n ELSE IF a = "group_id" THEN g
      ELSE AttributeDefs[a]] : n \in Declarations, g \in Declarations}
DescribeInit ==
  /\ urls \in {[resource |-> c.resource, collection |-> c.collection,
                 attributes |-> d] :
                  c \in UrlConfigs, d \in AttributeDeclarations}
  /\ routes = ResourceRouter(urls)
  /\ store = [i \in Ids |-> Item(i, "bob")]
  /\ reqs = [r \in Reqs |-> NewReq]
\* OPTIONS on the collection path or on an item path
DescribeArrive(r) ==
  /\ reqs[r].pc = "idle"
  /\ \E p \in {<<"users">>} \cup {<<"users", s>> : s \in IdSegments} :
       reqs' = [reqs EXCEPT ![r] =
                  [NewReq EXCEPT !.pc = "arrived", !.method = "OPTIONS",
                                 !.path = p]]
  /\ UNCHANGED <<urls, routes, store>>
DescribeStep(r) == DescribeArrive(r) \/ MioExpressRouterMiddleware(r)
DescribeNext == \E r \in {"r1"} : DescribeStep(r)
DescribeSpec == DescribeInit /\ [][DescribeNext]_vars

(***************************************************************************)
(* A resource whose url map gives the item actions templates that match    *)
(* the same paths under different parameter names.                         *)
(***************************************************************************)
NameT == <<Lit("users"), Param("name")>>
OverlapUrls ==
  [resource |-> <<Url("get", IdT), Url("put", NameT), Url("patch", IdT),
                  Url("post", CollectionT), Url("delete", PrimaryT),
                  Url("options", IdT)>>,
   collection |-> <<Url("get", CollectionT), Url("patch", CollectionT),
                    Url("delete", CollectionT), Url("options", CollectionT)>>]
OverlapInit ==
  /\ urls = OverlapUrls
  /\ routes = ResourceRouter(urls)
  /\ store \in {st \in [Ids -> Items \cup {Absent}] :
                  \A i \in Ids : st[i] # Absent => st[i].id = Num(i)}
  /\ reqs = [r \in Reqs |-> NewReq]
OverlapStep(r) == Arrive(r) \/ MioExpressRouterMiddleware(r)
OverlapNext == \E r \in {"r1"} : OverlapStep(r)
OverlapSpec == OverlapInit /\ [][OverlapNext]_vars

(***************************************************************************)
(* Setup by settings (src/lib/mio-express.js, MioExpressPluginFactory):    *)
(* the plugin that is given its URL templates as { url: { resource,        *)
(* collection, actions } }, on the resource or in its settings.            *)
(***************************************************************************)
ConfigError == "mio-express requires settings { url : { resource, collection } }"
\* a table that sends update and updateMany to PUT
actionsToMethods_UpdatePut ==
  <<[action |-> "describe", method |-> "OPTIONS"],
    [action |-> "describeMany", method |-> "OPTIONS"],
    [action |-> "index", method |-> "GET"],
    [action |-> "show", method |-> "GET"],
    [action |-> "create", method |-> "POST"],
    [action |-> "replace", method |-> "PUT"],
    [action |-> "update", method |-> "PUT"],
    [action |-> "updateMany", method |-> "PUT"],
    [action |-> "destroy", method |-> "DELETE"],
    [action |-> "destroyMany", method |-> "DELETE"]>>
\* the table of the actions' HTTP methods
actionsToMethods ==
  <<[action |-> "describe", method |-> "OPTIONS"],
    [action |-> "describeMany", method |-> "OPTIONS"],
    [action |-> "index", method |-> "GET"],
    [action |-> "show", method |-> "GET"],
    [action |-> "create", method |-> "POST"],
    [action |-> "replace", method |-> "PUT"],
    [action |-> "update", method |-> "PATCH"],
    [action |-> "updateMany", method |-> "PATCH"],
    [action |-> "destroy", method |-> "DELETE"],
    [action |-> "destroyMany", method |-> "DELETE"]>>
ItemActions == {"show", "update", "replace", "destroy", "describe"}
\* url.actions when the settings give none
DefaultActions(url) ==
  [a \in {actionsToMethods[i].action : i \in 1..Len(actionsToMethods)} |->
     IF a \in ItemActions THEN url.resource ELSE url.collection]
\* the values of settings.url and of Resource.url
UrlSettings ==
  [resource : {Undefined, Str(""), Str("/users/:id")},
   collection : {Undefined, Str(""), Str("/users")},
   actions : {Undefined,
              [a \in {"show", "index"} |->
                 IF a = "show" THEN Str("/users/:id") ELSE Str("/users")],
              [a \in {"show", "index", "update", "replace"} |->
                 IF a = "index" THEN Str("/users")
                 ELSE Str("/users/:id")],
              [a \in {"show", "index"} |-> Str("/users")]}]
PluginSettings ==
  {Undefined} \cup [url : {Undefined} \cup UrlSettings]
\* new ResourceRouter(Resource): one route per action of url.actions
SettingsRouter(actions) ==
  [a \in DOMAIN actions |->
     [action |-> a, path |-> actions[a],
      method |-> actionsToMethods[CHOOSE i \in 1..Len(actionsToMethods) :
                                    actionsToMethods[i].action = a].method,
      handler |-> a]]
\* a setup that asks for the resource template only
Setup_ResourceOnly(Resource_url, settings) ==
  LET url == IF Truthy(Resource_url) THEN Resource_url
             ELSE IF Truthy(settings) THEN settings.url ELSE settings
  IN IF ~Truthy(url) \/ ~Truthy(url.resource)
     THEN [thrown |-> ConfigError, url |-> Resource_url,
           routes |-> Undefined, router |-> Undefined]
     ELSE LET url2 == IF ~Truthy(url.actions)
                      THEN [url EXCEPT !.actions = DefaultActions(url)]
                      ELSE url
          IN [thrown |-> NoErr, url |-> url2,
              routes |-> DOMAIN url2.actions,
              router |-> SettingsRouter(url2.actions)]
\* MioExpressPlugin(Resource): what it throws, or Resource.url,
\* Resource.routes and Resource.router as it leaves them
Setup(Resource_url, settings) ==
  LET url == IF Truthy(Resource_url) THEN Resource_url
             ELSE IF Truthy(settings) THEN settings.url ELSE settings
  IN IF ~Truthy(url) \/ ~Truthy(url.resource) \/ ~Truthy(url.collection)
     THEN [thrown |-> ConfigError, url |-> Resource_url,
           routes |-> Undefined, router |-> Undefined]
     ELSE LET url2 == IF ~Truthy(url.actions)
                      THEN [url EXCEPT !.actions = DefaultActions(url)]
                      ELSE url
          IN [thrown |-> NoErr, url |-> url2,
              routes |-> DOMAIN url2.actions,
              router |-> SettingsRouter(url2.actions)]

SetupInit ==
  /\ urls \in [Resource_url : {Undefined} \cup UrlSettings,
               settings : PluginSettings]
  /\ routes = Undefined
  /\ store = [i \in Ids |-> Absent]
  /\ reqs = [r \in Reqs |-> NewReq]
\* Resource.use(plugin(settings))
MioExpressPlugin ==
  /\ routes = Undefined
  /\ routes' = Setup(urls.Resource_url, urls.settings)
  /\ UNCHANGED <<urls, store, reqs>>
SetupNext == MioExpressPlugin
SetupSpec == SetupInit /\ [][SetupNext]_vars


(***************************************************************************)
(* Properties                                                              *)
(***************************************************************************)
\* the router has run for the request
Dispatched(q) == q.pc \notin {"idle", "arrived"}
Done(q) == q.pc = "done"
\* the routes whose template has the segment structure of the path
PathMatched(path) ==
  {i \in 1..Len(routes) :
     /\ Len(routes[i].path) = Len(path)
     /\ \A k \in 1..Len(path) :
          "lit" \in DOMAIN routes[i].path[k] => routes[i].path[k].lit = path[k]}
MethodMatched(q) == {i \in PathMatched(q.path) : routes[i].method = q.method}
HandlerNames == {"get", "post", "put", "patch", "delete", "options",
                 "collection.get", "collection.patch", "collection.delete"}
HandlerTags == {"handler:" \o h : h \in HandlerNames}
ActionEvents == {"get", "post", "put", "patch", "delete", "collection:get",
                 "collection:patch", "collection:delete"}
RequestEmits == {"emit:request"} \cup {"emit:request:" \o a : a \in ActionEvents}
ResponseEmits == {"emit:response"} \cup {"emit:response:" \o a : a \in ActionEvents}
OpTags == {"op:" \o o : o \in {"get", "post", "put", "patch", "delete",
                                "collection.get", "collection.post",
                                "collection.delete"}}
Only(trace, tags) == SelectSeq(trace, LAMBDA e : e \in tags)
Has(trace, tag) == \E i \in 1..Len(trace) : trace[i] = tag
NextOut(err) == [kind |-> "next", status |-> 0, err |-> err, body |-> Undefined]
SendOut(status, body) ==
  [kind |-> "send", status |-> status, err |-> NoErr, body |-> body]

\* C1: a request whose path matches a route and whose method is the method
\* of a matched route has exactly one handler invoked, once: the handler of
\* the first matched route with that method; methodNotAllowed is not
\* invoked and the router does not call next itself.
C1_DispatchFirstMethodMatch ==
  \A r \in Reqs :
    LET q == reqs[r] IN
    (Dispatched(q) /\ MethodMatched(q) # {}) =>
      /\ routes[Min(MethodMatched(q))].handler \in HandlerNames
      /\ Only(q.trace, HandlerTags) =
           <<"handler:" \o routes[Min(MethodMatched(q))].handler>>
      /\ q.trace[1] = "handler:" \o routes[Min(MethodMatched(q))].handler
      /\ ~Has(q.trace, "methodNotAllowed")

\* C2: a request whose path matches no route is passed on with next() and
\* no error, exactly once; nothing is written, no handler runs, nothing is
\* emitted and no resource operation is called.
C2_PathMissPassesThrough ==
  \A r \in Reqs :
    LET q == reqs[r] IN
    (Dispatched(q) /\ PathMatched(q.path) = {}) =>
      /\ q.trace = <<"next">>
      /\ q.outs = <<NextOut(NoErr)>>
      /\ q.allow = <<>> /\ q.location = <<>>
C2_Witness ==
  \E r \in Reqs : /\ Done(reqs[r]) /\ reqs[r].path = <<"other">>
                  /\ reqs[r].outs = <<NextOut(NoErr)>>

\* C3: a request whose path matches a route while no matched route has its
\* method gets the Allow header set and then a 405 error passed to next; no
\* handler runs, no resource operation is called, no response is written.
C3_MethodMissIs405 ==
  \A r \in Reqs :
    LET q == reqs[r] IN
    (Dispatched(q) /\ PathMatched(q.path) # {} /\ MethodMatched(q) = {}) =>
      /\ q.trace = <<"methodNotAllowed", "set:Allow", "next:error">>
      /\ q.outs = <<NextOut(MethodNotAllowed)>>
C3_Witness ==
  \E r \in Reqs : /\ Done(reqs[r]) /\ reqs[r].method = "HEAD"
                  /\ reqs[r].path = <<"users">>
                  /\ reqs[r].outs = <<NextOut(MethodNotAllowed)>>
                  /\ Has(reqs[r].trace, "set:Allow")

\* C4: on every OPTIONS response and every 405 the Allow header holds
\* exactly the methods of the routes registered for the matched path.
C4_AllowListsRegisteredMethods ==
  \A r \in Reqs :
    LET q == reqs[r] IN
    (Done(q) /\ Has(q.trace, "set:Allow")) =>
      {q.allow[i] : i \in 1..Len(q.allow)} =
        {[method |-> routes[i].method] :
           i \in {j \in 1..Len(routes) : routes[j].path = routes[q.route].path}}


\* the event name of a handler
EventOf(h) ==
  CASE h = "collection.get" -> "collection:get"
    [] h = "collection.patch" -> "collection:patch"
    [] h = "collection.delete" -> "collection:delete"
    [] OTHER -> h
SendTags == {"send:200", "send:201", "send:204"}
Responded(q) == Done(q) /\ q.outs # <<>> /\ q.outs[Len(q.outs)].kind = "send"

\* C5: every request of item get/post/put/patch/delete and collection
\* get/delete that ends with a response has emitted exactly four
\* notifications, once each, in the order request, request:<action>,
\* response, response:<action>, and the response is written after the
\* fourth has completed.
C5_FourNotificationsInOrder ==
  \A r \in Reqs :
    LET q == reqs[r] IN
    (Responded(q) /\ q.handler \in {"get", "post", "put", "patch", "delete",
                                    "collection.get", "collection.delete"}) =>
      /\ Only(q.trace, RequestEmits \cup ResponseEmits) =
           <<"emit:request", "emit:request:" \o EventOf(q.handler),
             "emit:response", "emit:response:" \o EventOf(q.handler)>>
      /\ Has(q.trace, "ok:response:" \o EventOf(q.handler))
      /\ q.trace[Len(q.trace)] \in SendTags
      /\ Len(Only(q.trace, SendTags)) = 1
C5_Witness ==
  \E r \in Reqs : /\ Responded(reqs[r]) /\ reqs[r].handler = "delete"
                  /\ reqs[r].trace[Len(reqs[r].trace)] = "send:204"
                  /\ Has(reqs[r].trace, "emit:response:delete")

\* C6: in every handler the response-phase notifications are emitted only
\* after all of the handler's resource operations, the persist step
\* included, have completed.
C6_ResponseEventsAfterOperations ==
  \A r \in Reqs :
    \A i, j \in 1..Len(reqs[r].trace) :
      (i < j /\ reqs[r].trace[i] \in ResponseEmits) =>
        reqs[r].trace[j] \notin OpTags

\* C7: no resource operation is invoked before both request-phase
\* notifications have been emitted, in order, and have completed; and the
\* listeners of both observe the query/payload with the path parameters
\* already merged.
C7_OperationsAfterRequestEvents ==
  \A r \in Reqs :
    LET q == reqs[r]
        e == EventOf(q.handler)
        phase == {"emit:request", "ok:request", "emit:request:" \o e,
                  "ok:request:" \o e}
    IN \A i \in 1..Len(q.trace) :
         q.trace[i] \in OpTags =>
           /\ Len(Only(SubSeq(q.trace, 1, i - 1), phase \cup OpTags)) >= 4
           /\ SubSeq(Only(SubSeq(q.trace, 1, i - 1), phase \cup OpTags), 1, 4) =
                <<"emit:request", "ok:request", "emit:request:" \o e,
                  "ok:request:" \o e>>
           /\ Len(Only(q.trace, phase)) = 4
           /\ Len(q.obs) >= 2
           /\ q.obs[1].event = "request" /\ q.obs[2].event = "request:" \o e
           /\ \A k \in 1..2 :
                IF q.handler = "post"
                THEN IF IsArray(q.obs[k].body)
                     THEN \A n \in 1..Len(q.obs[k].body.arr) :
                            mergeParams(q.obs[k].body.arr[n], q.params) =
                              q.obs[k].body.arr[n]
                     ELSE mergeParams(q.obs[k].body, q.params) = q.obs[k].body
                ELSE q.obs[k].where = mergeParams(EmptyObj, q.params)
C7_Witness ==
  \E r \in Reqs : /\ reqs[r].handler = "post"
                  /\ Has(reqs[r].trace, "op:post")
                  /\ reqs[r].params = [k \in {"group_id"} |-> Str("3")]
                  /\ reqs[r].obs[1].body = SetKey(NameObj, "group_id", Num(3))

\* C8: for GET, PATCH and DELETE of an item, whenever find-one yields no
\* item the handler passes a 404 error to next, writes no response and
\* invokes neither persist nor destroy.
C8_MissingItemIsNotFound ==
  \A r \in Reqs :
    LET q == reqs[r] IN
    (Done(q) /\ q.handler \in {"get", "patch", "delete"}
       /\ Has(q.trace, "ok:get") /\ ~Truthy(q.fetched)) =>
      /\ q.outs = <<NextOut(NotFound)>>
      /\ ~Has(q.trace, "op:patch") /\ ~Has(q.trace, "op:delete")

C10_Original ==
  \A r \in Reqs :
    LET q == reqs[r] IN
    (Done(q) /\ q.handler = "put" /\ Has(q.trace, "ok:get")) =>
      /\ Has(q.trace, "ok:put")
      /\ q.outs = <<IF ~Truthy(q.fetched) THEN SendOut(201, q.resource)
                    ELSE IF PreferRepresentation(q.prefer)
                         THEN SendOut(200, q.resource)
                         ELSE SendOut(204, Undefined)>>
\* C10: for PUT of an item whose find-one succeeds: unless the persist
\* operation or a response-phase listener reports an error (which is then
\* passed to next, with no response), the payload is persisted and the
\* response is 201 when find-one yields no item, whatever Prefer says, and
\* otherwise 200 when Prefer matches return=representation and 204 with an
\* empty body when it does not; the body of a 201 or 200 is the persisted
\* item, or the replacement the response:put listener supplies.  201 is
\* never returned for an item find-one found.
C10_PutStatus ==
  \A r \in Reqs :
    LET q == reqs[r]
        body == IF q.rep # Undefined THEN q.rep ELSE q.resource
    IN (Done(q) /\ q.handler = "put" /\ Has(q.trace, "ok:get")) =>
         \/ /\ ~Has(q.trace, "ok:put")
            /\ q.outs = <<NextOut(UpstreamError)>>
         \/ /\ Has(q.trace, "ok:put")
            /\ q.outs = <<NextOut(ListenerError)>>
         \/ /\ Has(q.trace, "ok:put")
            /\ q.resource = PutItem(q.where, q.body)
            /\ q.outs = <<IF ~Truthy(q.fetched) THEN SendOut(201, body)
                          ELSE IF q.prefer \in {"return=representation",
                                                "Return=Representation",
                                                "wait=5, return=representation"}
                               THEN SendOut(200, body)
                               ELSE SendOut(204, Undefined)>>
C10_Witness ==
  \E r \in Reqs : /\ Done(reqs[r]) /\ reqs[r].handler = "put"
                  /\ reqs[r].fetched = Item(1, "bob")
                  /\ reqs[r].prefer = "Return=Representation"
                  /\ reqs[r].outs = <<SendOut(200, Item(1, "jeff"))>>
                  /\ store[1] = Item(1, "jeff")

\* the values of the Prefer header that contain return=representation,
\* whatever the case of the letters
WantsRepresentation ==
  {"return=representation", "Return=Representation",
   "wait=5, return=representation"}

\* C11 as claimed: for PATCH of an item and of a collection, after a
\* successful persist the response is 200 with the updated representation
\* if and only if Prefer contains return=representation, compared
\* case-insensitively; in every other case it is 204 with an empty body.
C11_Original ==
  \A r \in Reqs :
    LET q == reqs[r] IN
    (Done(q) /\ q.handler \in {"patch", "collection.patch"}
       /\ Has(q.trace, "ok:patch")) =>
      q.outs = <<IF q.prefer \in WantsRepresentation
                 THEN SendOut(200, q.resource)
                 ELSE SendOut(204, Undefined)>>
\* C11: for PATCH of an item and of a collection, after a successful
\* persist, and for a collection unless a response-phase listener then
\* reports an error (which is passed to next, with no response), the
\* response is 200 if and only if Prefer contains return=representation,
\* compared case-insensitively, and 204 with an empty body in every other
\* case; the body of the 200 is the updated representation, or for a
\* collection the replacement the response:collection:patch listener
\* supplies.
C11_PreferChoosesStatus ==
  \A r \in Reqs :
    LET q == reqs[r] IN
    (Done(q) /\ q.handler \in {"patch", "collection.patch"}
       /\ Has(q.trace, "ok:patch")) =>
      \/ /\ q.handler = "collection.patch"
         /\ q.outs = <<NextOut(ListenerError)>>
      \/ q.outs = <<IF q.prefer \in WantsRepresentation
                    THEN SendOut(200, IF q.handler = "collection.patch"
                                         /\ q.rep # Undefined
                                      THEN q.rep ELSE q.resource)
                    ELSE SendOut(204, Undefined)>>
C11_Witness ==
  \E r \in Reqs : /\ Done(reqs[r]) /\ reqs[r].handler = "patch"
                  /\ reqs[r].prefer = "Return=Representation"
                  /\ reqs[r].fetched = Item(1, "bob")
                  /\ reqs[r].outs = <<SendOut(200, Item(1, "jeff"))>>
                  /\ store[1] = Item(1, "jeff")

\* C12: for PATCH of an item with a JSON-Patch content type, whenever
\* applying the patch document to the fetched item raises, the handler
\* passes a 400 error to next, writes no response, never invokes the persist
\* operation, and the stored item is what it was before the request.
C12_BadPatchIs400 ==
  \A r \in Reqs :
    LET q == reqs[r] IN
    (Done(q) /\ q.handler = "patch" /\ Has(q.trace, "ok:get")
       /\ Truthy(q.fetched) /\ q.ctype = JsonPatchType
       /\ ~Patched(q.fetched, q.body, q.ctype).ok) =>
      /\ q.outs = <<NextOut(BadRequest)>>
      /\ ~Has(q.trace, "op:patch")
      /\ Only(q.trace, ResponseEmits) = <<>>
      /\ FindOne(store, q.where) = q.fetched
C12_Witness ==
  \E r \in Reqs : /\ Done(reqs[r]) /\ reqs[r].handler = "patch"
                  /\ reqs[r].ctype = JsonPatchType
                  /\ reqs[r].body = [arr |-> <<[arr |-> <<ReplaceOp>>]>>]
                  /\ reqs[r].fetched = Item(1, "bob")
                  /\ reqs[r].outs = <<NextOut(BadRequest)>>
                  /\ store[1] = Item(1, "bob")

\* C13: in every handler, when a resource operation completes with an
\* error the handler passes that error, unchanged, to next exactly once,
\* writes no response, emits no response-phase notification and invokes no
\* further resource operation.
C13_OperationErrorPassesThrough ==
  \A r \in Reqs :
    LET q == reqs[r] IN
    (\E i \in 1..Len(q.outs) : q.outs[i] = NextOut(UpstreamError)) =>
      /\ q.outs = <<NextOut(UpstreamError)>>
      /\ Len(q.trace) >= 2
      /\ q.trace[Len(q.trace)] = "next:error"
      /\ q.trace[Len(q.trace) - 1] \in OpTags
      /\ Only(q.trace, ResponseEmits) = <<>>

\* a URL template with every placeholder replaced by the resource's value for
\* the attribute it names, primary standing for the primary key
RECURSIVE Substituted(_, _)
Substituted(t, resource) ==
  IF t = <<>> THEN <<>>
  ELSE LET seg == Head(t)
           v == resource[IF seg.param = "primary" THEN "id" ELSE seg.param]
       IN <<IF "lit" \in DOMAIN seg THEN seg.lit
            ELSE IF "num" \in DOMAIN v THEN ToString(v.num) ELSE v.str>>
          \o Substituted(Tail(t), resource)

\* C14: a POST of one representation that succeeds responds 201 with the
\* created representation as the body and with a Location header equal to
\* the resource's get-URL template with every placeholder replaced by the
\* created resource's value for that attribute, whatever the value, 0
\* included.
C14_LocationOfCreated ==
  \A r \in Reqs :
    LET q == reqs[r] IN
    (Responded(q) /\ q.handler = "post" /\ ~IsArray(q.body)
       /\ q.rep = Undefined) =>
      /\ q.outs = <<SendOut(201, q.resource)>>
      /\ q.resource \in {store[i] : i \in Ids}
      /\ q.location = Substituted(UrlFor(urls.resource, "get"), q.resource)

\* the number a string of decimal digits denotes
Numerals ==
  [s \in {"0", "1", "2", "3", "42"} |->
     CASE s = "0" -> 0 [] s = "1" -> 1 [] s = "2" -> 2 [] s = "3" -> 3
       [] OTHER -> 42]
\* a captured value as a target is to hold it
Coerced(v) == IF v.str \in DOMAIN Numerals THEN Num(Numerals[v.str]) ELSE v
AttributeNames == {"id", "name", "group_id"}
\* the representations of a payload
Representations(body) ==
  IF IsArray(body) THEN {body.arr[i] : i \in 1..Len(body.arr)} ELSE {body}

\* C15: when the create operation of a POST is invoked, every path
\* parameter that names a declared attribute has been merged into the
\* payload, when it is one object, and into every element of the payload,
\* when it is an array.
C15_ParamsMergedIntoPayload ==
  \A r \in Reqs :
    LET q == reqs[r] IN
    (q.handler = "post"
       /\ (Has(q.trace, "op:post") \/ Has(q.trace, "op:collection.post"))) =>
      \A a \in DOMAIN q.params \cap AttributeNames :
        \A e \in Representations(q.body) :
          a \in DOMAIN e /\ e[a] = Coerced(q.params[a])
C15_Witness ==
  \E r \in Reqs : /\ reqs[r].handler = "post"
                  /\ Has(reqs[r].trace, "op:collection.post")
                  /\ reqs[r].params = [k \in {"group_id"} |-> Str("3")]
                  /\ reqs[r].body =
                       [arr |-> <<SetKey(NameObj, "group_id", Num(3)),
                                  SetKey(NameObj, "group_id", Num(3))>>]

\* a call of mergeParams has returned: body holds the target as it was,
\* where the target as it is, params the parameter map
Merged(q) == q.pc = "merged"
\* the keys of the target that a parameter map names
NamedBy(M) ==
  {k \in DOMAIN M : k # "primary"}
    \cup (IF "primary" \in DOMAIN M THEN {"id"} ELSE {})

\* C16: mergeParams adds or changes in its target only keys that are
\* declared attributes: a parameter that names no declared attribute (after
\* primary is mapped to the primary key) is dropped, and every key of the
\* target that is not a declared attribute, or that no parameter names, is
\* left as it was.
C16_OnlyDeclaredAttributesMerged ==
  \A r \in Reqs :
    LET q == reqs[r] IN
    Merged(q) =>
      /\ DOMAIN q.where \subseteq DOMAIN q.body \cup AttributeNames
      /\ DOMAIN q.where \subseteq DOMAIN q.body \cup NamedBy(q.params)
      /\ \A k \in DOMAIN q.body :
           /\ k \in DOMAIN q.where
           /\ (k \notin AttributeNames \/ k \notin NamedBy(q.params)) =>
                q.where[k] = q.body[k]
C16_Witness ==
  \E r \in Reqs :
    /\ Merged(reqs[r])
    /\ reqs[r].params =
         [k \in {"org", "group_id"} |-> IF k = "org" THEN Str("7a") ELSE Str("3")]
    /\ reqs[r].body =
         [k \in {"id", "org"} |-> IF k = "id" THEN Num(1) ELSE Str("acme")]
    /\ reqs[r].where =
         [k \in {"id", "org", "group_id"} |->
            IF k = "id" THEN Num(1)
            ELSE IF k = "org" THEN Str("acme") ELSE Num(3)]

\* C17: a path parameter named primary is stored by mergeParams, coerced
\* when numeric, under the primary-key attribute of the target, which is
\* never left undefined or missing.
C17_PrimaryStoredUnderPrimaryKey ==
  \A r \in Reqs :
    LET q == reqs[r] IN
    (Dispatched(q) /\ q.where # Undefined /\ "primary" \in DOMAIN q.params) =>
      /\ "id" \in DOMAIN q.where
      /\ q.where["id"] = Coerced(q.params["primary"])

\* C18: mergeParams stores a parameter whose string parses fully as a
\* number as that number, and a parameter whose string does not (7a) as the
\* unchanged string.
C18_NumericStringsCoerced ==
  \A r \in Reqs :
    LET q == reqs[r] IN
    Merged(q) =>
      \A k \in (DOMAIN q.params) \cap AttributeNames :
        /\ k \in DOMAIN q.where
        /\ q.params[k].str \in {"3", "42"} =>
             q.where[k] = Num(Numerals[q.params[k].str])
        /\ q.params[k].str = "7a" => q.where[k] = Str("7a")
C18_Witness ==
  \E r \in Reqs :
    /\ Merged(reqs[r])
    /\ reqs[r].params =
         [k \in {"id", "group_id"} |-> IF k = "id" THEN Str("42") ELSE Str("7a")]
    /\ reqs[r].where =
         [k \in {"id", "group_id"} |-> IF k = "id" THEN Num(42) ELSE Str("7a")]

\* a call of match has returned: route is 0 when nothing matched, params
\* holds req.params
Matched(q) == q.pc = "matched"
\* the positions of the placeholders of a template
Placeholders(t) == {i \in 1..Len(t) : "param" \in DOMAIN t[i]}
\* the path is the template with a segment put for each placeholder
InstanceOf(p, t) ==
  /\ Len(p) = Len(t)
  /\ \A i \in (1..Len(t)) \ Placeholders(t) : p[i] = t[i].lit

\* C19: matching a path against the route built from a template succeeds
\* exactly when the path is the template with a segment substituted for
\* each placeholder, and then yields for every placeholder name exactly
\* the substituted string, the names being kept in template order.
C19_MatchYieldsSubstitutedValues ==
  \A r \in Reqs :
    LET q == reqs[r]
        t == urls.resource[1].url
    IN Matched(q) =>
         /\ (q.route # 0) <=> InstanceOf(q.path, t)
         /\ q.route = 0 => q.params = EmptyObj
         /\ q.route # 0 =>
              /\ DOMAIN q.params = {t[i].param : i \in Placeholders(t)}
              /\ \A i \in Placeholders(t) :
                   q.params[t[i].param] = Str(q.path[i])
              /\ Len(routes[1].params) = Cardinality(Placeholders(t))
              /\ \A i, j \in Placeholders(t) :
                   i < j =>
                     \E a, b \in 1..Len(routes[1].params) :
                       /\ a < b
                       /\ routes[1].params[a] = t[i].param
                       /\ routes[1].params[b] = t[j].param
C19_Witness ==
  \E r \in Reqs :
    /\ Matched(reqs[r]) /\ reqs[r].route = 1
    /\ urls.resource[1].url = GroupItemT
    /\ reqs[r].path = <<"groups", "7a", "users", "42">>
    /\ reqs[r].params =
         [k \in {"group_id", "id"} |->
            IF k = "id" THEN Str("42") ELSE Str("7a")]
    /\ routes[1].params = <<"group_id", "id">>

\* the url settings the plugin goes by: those of the resource, else those
\* of the settings
EffectiveUrl ==
  IF urls.Resource_url # Undefined THEN urls.Resource_url
  ELSE IF urls.settings # Undefined THEN urls.settings.url ELSE Undefined
\* a template that is not given, or is empty
Missing(template) == template \in {Undefined, Str("")}

\* C20: setup with a configuration whose resource template or collection
\* template is missing throws a configuration error, and neither routes nor
\* a router are built for the resource.
C20_MissingTemplatesThrow ==
  (routes # Undefined
     /\ \/ EffectiveUrl = Undefined
        \/ Missing(EffectiveUrl.resource)
        \/ Missing(EffectiveUrl.collection)) =>
    /\ routes.thrown = ConfigError
    /\ routes.routes = Undefined
    /\ routes.router = Undefined
C20_Witness ==
  /\ urls.Resource_url = Undefined
  /\ urls.settings # Undefined /\ urls.settings.url # Undefined
  /\ urls.settings.url.resource = Str("/users/:id")
  /\ urls.settings.url.collection = Undefined
  /\ routes # Undefined
  /\ routes.thrown = ConfigError /\ routes.router = Undefined

\* setup has run and has accepted the configuration
Accepted == routes # Undefined /\ routes.thrown = NoErr
\* the route entries the router holds after setup
Entries == {routes.router[a] : a \in DOMAIN routes.router}

ConfiguredActions ==
  {<<"resource", urls.resource[i].key>> : i \in 1..Len(urls.resource)}
    \cup {<<"collection", urls.collection[i].key>> :
            i \in 1..Len(urls.collection)}

\* C22: the table built at setup has exactly one entry per configured
\* action, with the template configured for that action, and every entry
\* has a defined method and a handler that can be invoked.
C22_EveryEntryHasHandler ==
  /\ Len(routes) = Cardinality(ConfiguredActions)
  /\ \A i \in 1..Len(urls.resource) :
       /\ routes[i].action = urls.resource[i].key
       /\ routes[i].path = urls.resource[i].url
  /\ \A i \in 1..Len(urls.collection) :
       /\ routes[Len(urls.resource) + i].action = urls.collection[i].key
       /\ routes[Len(urls.resource) + i].path = urls.collection[i].url
  /\ \A i \in 1..Len(routes) :
       /\ routes[i].method \in Methods
       /\ routes[i].handler \in HandlerNames

\* C23: for every configuration accepted at setup the table holds no two
\* entries with the same path template and the same method.
C23_NoTwoEntriesAlike ==
  Accepted =>
    \A e1, e2 \in Entries :
      (e1.path = e2.path /\ e1.method = e2.method) => e1.action = e2.action

\* the persist operation of an updating request has completed
Persisted(q) == Has(q.trace, "ok:put") \/ Has(q.trace, "ok:patch")
\* the request waits for its persist operation to complete
Persisting(q) == q.pc \in {"put/put", "patch/patch"}
\* what the request persists is an identified item
Identified(q) == IsObj(q.resource) /\ IsId(GetKey(q.resource, "id"))

\* C24: with two updating requests (PUT, PATCH) of the same item in flight
\* each fetches, changes the item in memory and persists with no
\* comparison against what is stored by then: a persist step is refused
\* only by an error of the resource layer itself, it stores what its own
\* request holds and changes nothing else, and nothing but a persist step
\* changes the store.  So after both complete the stored item is what
\* the request whose persist step ran last wrote.
C24_LastWriteWins ==
  [][/\ \A r \in Reqs :
          (Persisting(reqs[r]) /\ reqs'[r] # reqs[r]) =>
            \/ /\ reqs'[r].outs = <<NextOut(UpstreamError)>>
               /\ store' = store
            \/ /\ Persisted(reqs'[r])
               /\ IF Identified(reqs'[r])
                  THEN /\ store'[reqs'[r].resource.id.num] = reqs'[r].resource
                       /\ \A i \in Ids \ {reqs'[r].resource.id.num} :
                            store'[i] = store[i]
                  ELSE store' = store
     /\ store' # store =>
          \E r \in Reqs : Persisting(reqs[r]) /\ Persisted(reqs'[r])
     /\ \A r \in Reqs :
          (Done(reqs'[r]) /\ Persisted(reqs'[r]) /\ Identified(reqs'[r])) =>
            \E s \in Reqs :
              /\ Persisted(reqs'[s])
              /\ store'[reqs'[r].resource.id.num] = reqs'[s].resource]_vars
C24_Witness ==
  /\ urls = NamedUrls
  /\ \A r \in Reqs : /\ Responded(reqs[r]) /\ reqs[r].handler = "patch"
                      /\ reqs[r].path = <<"users", "1">>
                      /\ reqs[r].fetched = Item(1, "bob")
                      /\ reqs[r].outs[1].status \in {200, 204}
  /\ reqs["r1"].resource = Item(1, "jeff")
  /\ reqs["r2"].resource = SetKey(Item(1, "bob"), "group_id", Num(3))
  /\ store[1] = SetKey(Item(1, "bob"), "group_id", Num(3))

\* C25: the status of a PUT is decided by the find-one that precedes its
\* write alone and is not looked at again when it writes: from the find-one
\* on it is 201 exactly when that find-one yielded no item, and a PUT that
\* responds does so with 201 exactly then, whatever the store holds by the
\* time it writes.
C25_StatusFromFindOneAlone ==
  \A r \in Reqs :
    LET q == reqs[r] IN
    (q.handler = "put" /\ Has(q.trace, "ok:get")) =>
      /\ q.status = IF Truthy(q.fetched) THEN 204 ELSE 201
      /\ Responded(q) => (q.outs[1].status = 201 <=> ~Truthy(q.fetched))
\* two interleaved PUT requests for the same absent item both respond 201
C25_Witness ==
  /\ urls = NamedUrls
  /\ \A r \in Reqs : /\ Responded(reqs[r]) /\ reqs[r].handler = "put"
                      /\ reqs[r].path = <<"users", "1">>
                      /\ reqs[r].snap.store[1] = Absent
                      /\ reqs[r].fetched = Undefined
                      /\ reqs[r].outs[1].status = 201
  /\ store[1] # Absent

\* the segments of a request's path, as captured and as coerced
OwnValues(q) ==
  {Str(q.path[i]) : i \in 1..Len(q.path)}
    \cup {Num(ToNumber(q.path[i])) :
            i \in {j \in 1..Len(q.path) : IsNumeric(q.path[j])}}
    \cup {Undefined}

\* C26: whatever the interleaving, the context of a request comes from
\* that request alone: its parameters are the captures of its own path,
\* its filter is those parameters merged into a fresh query, its body is
\* the one it arrived with, the listeners observe that filter and body, no
\* value captured for another request's path shows up in them, and what
\* it fetches, persists and answers goes by its own filter and body.
C26_ContextOfOwnRequestOnly ==
  \A r \in Reqs :
    LET q == reqs[r] IN
    Dispatched(q) =>
      /\ q.params = match(routes, q.path, EmptyObj).params
      /\ \A k \in DOMAIN q.params : q.params[k] \in OwnValues(q)
      /\ \E a \in RaceRequests :
           a.method = q.method /\ a.path = q.path /\ a.body = q.body
      /\ q.handler \in {"get", "put", "patch"} =>
           /\ q.where = mergeParams(EmptyObj, q.params)
           /\ \A k \in DOMAIN q.where : q.where[k] \in OwnValues(q)
           /\ \A i \in 1..Len(q.obs) :
                q.obs[i].where = q.where /\ q.obs[i].body = q.body
           /\ Truthy(q.fetched) => QueryMatches(q.fetched, q.where)
           /\ (q.handler = "put" /\ Persisted(q)) =>
                q.resource = PutItem(q.where, q.body)
           /\ (q.handler = "get" /\ Responded(q) /\ q.rep = Undefined) =>
                q.outs = <<SendOut(200, q.fetched)>>
C26_Witness ==
  /\ urls = NamedUrls
  /\ \A r \in Reqs : /\ Responded(reqs[r]) /\ reqs[r].handler = "get"
                      /\ reqs[r].snap.after = {}
  /\ reqs["r1"].path = <<"users", "0">>
  /\ reqs["r1"].where = [k \in {"id"} |-> Num(0)]
  /\ reqs["r1"].outs = <<SendOut(200, Item(0, "bob"))>>
  /\ reqs["r2"].path = <<"users", "1">>
  /\ reqs["r2"].where = [k \in {"id"} |-> Num(1)]
  /\ reqs["r2"].outs = <<SendOut(200, Item(1, "bob"))>>

\* the errors that are passed to next
Errors == {UpstreamError, ListenerError, NotFound, MethodNotAllowed, BadRequest}

\* C27: next is called with no error only by the router when the path
\* matches no route; every next of a handler or of methodNotAllowed
\* carries an error, a missing item included.
C27_NextWithoutErrorOnlyOnPathMiss ==
  \A r \in Reqs :
    LET q == reqs[r] IN
    \A i \in 1..Len(q.outs) :
      q.outs[i].kind = "next" =>
        IF PathMatched(q.path) = {}
        THEN /\ q.outs[i].err = NoErr
             /\ q.handler = "" /\ ~Has(q.trace, "methodNotAllowed")
        ELSE /\ q.outs[i].err \in Errors
             /\ (q.handler \in {"get", "patch", "delete"}
                  /\ Has(q.trace, "ok:get") /\ ~Truthy(q.fetched)
                  /\ q.outs[i].err \notin {ListenerError, UpstreamError}) =>
                  q.outs[i].err = NotFound
C27_Witness ==
  \E r \in Reqs : /\ Done(reqs[r]) /\ reqs[r].handler = "delete"
                  /\ reqs[r].path = <<"users", "1">>
                  /\ Has(reqs[r].trace, "ok:get")
                  /\ reqs[r].outs = <<NextOut(NotFound)>>

\* request s was called when request r was over
InSuccession(r, s) ==
  /\ r # s
  /\ reqs[s].snap # Undefined /\ r \in reqs[s].snap.after
\* the item a request's path names was stored when the request arrived
ItemExisted(q) == q.snap.store[ToNumber(q.path[2])] # Absent

\* C28: a PUT called after a PUT of the same path and payload that found
\* the item stored and has persisted leaves the store as the first left
\* it, and never responds 201.
C28_ReplaceTwiceChangesNothing ==
  \A r, s \in Reqs :
    (/\ InSuccession(r, s)
     /\ reqs[r].handler = "put" /\ reqs[s].handler = "put"
     /\ reqs[r].path = reqs[s].path /\ reqs[r].body = reqs[s].body
     /\ ItemExisted(reqs[r]) /\ Persisted(reqs[r])
     /\ Done(reqs[s])) =>
      /\ store = reqs[s].snap.store
      /\ \A i \in 1..Len(reqs[s].outs) : reqs[s].outs[i].status # 201

\* C29: a GET of the path the Location header of a create names is
\* routed to the item fetch handler, finds the created item and, unless a
\* listener or the resource layer reports an error or a listener replaces
\* a result, is answered 200 with the representation the create returned.
C29_CreatedItemIsFetchedAtLocation ==
  \A c, f \in Reqs :
    (/\ InSuccession(c, f) /\ reqs[c].handler = "post"
     /\ reqs[f].path = reqs[c].location /\ Dispatched(reqs[f])
     /\ reqs[c].rep = Undefined) =>
      /\ reqs[f].handler = "get"
      /\ Has(reqs[f].trace, "ok:get") => reqs[f].fetched = reqs[c].resource
      /\ (Done(reqs[f]) /\ reqs[f].rep = Undefined
            /\ reqs[f].outs \notin {<<NextOut(ListenerError)>>,
                                     <<NextOut(UpstreamError)>>}) =>
           reqs[f].outs = <<SendOut(200, reqs[c].outs[1].body)>>

\* the patch of a collection PATCH does not apply to one of the fetched
\* resources
PatchFails(q) ==
  /\ q.handler = "collection.patch" /\ Has(q.trace, "ok:collection.get")
  /\ ~Has(q.trace, "ok:patch")
  /\ ~PatchedEach(Find(store, q.where), 1, q.body, q.ctype).ok

\* C30: when the patch of a collection PATCH fails to apply to one of the
\* fetched resources, the bulk update is not invoked and the failure is
\* passed to next as an error, with no response written.
C30_FailedBatchIsPassedToNext ==
  \A r \in Reqs :
    LET q == reqs[r] IN
    PatchFails(q) =>
      /\ ~Has(q.trace, "op:patch")
      /\ Len(q.outs) = 1 /\ q.outs[1].kind = "next"
      /\ q.outs[1].err # NoErr

(***************************************************************************)
(* C31: describe (OPTIONS on an item or collection path) always responds   *)
(* 200 without calling a resource operation or next, and its               *)
(* resource_schema has exactly one key per attribute that is not marked    *)
(* non-serializable, each carrying the attribute's description or, when it *)
(* has none, {required: <boolean>}.                                        *)
(***************************************************************************)
Described(q) == Done(q) /\ q.handler = "options"
Declared(d) == d \notin {Undefined, Str("")}
C31_DescribeAnswersWithSchema ==
  \A r \in Reqs :
    LET q == reqs[r]
        A == AttributesOf(urls)
    IN Described(q) =>
         /\ Len(q.outs) = 1 /\ q.outs[1].kind = "send"
         /\ q.outs[1].status = 200
         /\ \A i \in 1..Len(q.trace) :
              q.trace[i] \notin OpTags \cup {"next", "next:error"}
         /\ LET S == q.outs[1].body.resource_schema
            IN /\ DOMAIN S =
                    {a \in DOMAIN A : A[a].serializable # [bool |-> FALSE]}
               /\ \A a \in DOMAIN S :
                    IF Declared(A[a].description)
                    THEN S[a] = A[a].description
                    ELSE /\ DOMAIN S[a] = {"required"}
                         /\ S[a].required \in BOOLEAN
                         /\ S[a].required = (A[a].required = [bool |-> TRUE])
C31_Witness ==
  \E r \in Reqs :
    /\ Described(reqs[r])
    /\ Len(reqs[r].path) = 2
    /\ urls.attributes["name"].serializable = [bool |-> FALSE]
    /\ urls.attributes["group_id"].description = Str("the name")

(***************************************************************************)
(* C32: each request handed to the router has at most one terminal         *)
(* outcome: one response written, or one error passed to next, or one      *)
(* pass-through next(); never both a response and a next call, nor two     *)
(* responses, nor two next calls.                                          *)
(***************************************************************************)
NextTags == {"next", "next:error"}
Outcomes(q) == SelectSeq(q.outs, LAMBDA o : o.kind \in {"send", "next"})
C32_AtMostOneOutcome ==
  \A r \in Reqs :
    LET q == reqs[r]
    IN /\ Len(Outcomes(q)) <= 1
       /\ Len(Only(q.trace, SendTags \cup NextTags)) <= 1
       /\ Len(Outcomes(q)) = 1 => Done(q)
C32_Witness ==
  \E r \in Reqs :
    LET q == reqs[r]
    IN /\ Done(q) /\ q.handler = "patch"
       /\ Has(q.trace, "op:patch")
       /\ Len(q.outs) = 1 /\ q.outs[1].kind = "next"

(***************************************************************************)
(* C33: after setup no sequence of requests changes the Action Table: the  *)
(* ordered set of entries and each entry's action, method, template,       *)
(* param-name list and handler stay what setup made them.                  *)
(***************************************************************************)
C33_ActionTableIsNeverChanged ==
  [][/\ Len(routes') = Len(routes)
     /\ \A i \in 1..Len(routes) :
          /\ routes'[i].action = routes[i].action
          /\ routes'[i].method = routes[i].method
          /\ routes'[i].path = routes[i].path
          /\ routes'[i].params = routes[i].params
          /\ routes'[i].handler = routes[i].handler]_vars
C33_Witness ==
  /\ routes = ResourceRouter(urls)
  /\ \E r \in Reqs :
       /\ Done(reqs[r]) /\ Has(reqs[r].trace, "ok:put")
       /\ reqs[r].params # EmptyObj
       /\ \E i \in Ids : store[i] # Absent /\ GetKey(store[i], "name") = Str("jeff")

(***************************************************************************)
(* C34: for PATCH of an item with a JSON-Patch content type, a body that   *)
(* is an array of k operations, for every k >= 0, is applied as exactly    *)
(* those k operations in order (an empty array applies nothing and the     *)
(* request proceeds to persist), and a body that is a single operation     *)
(* object is applied as a one-element sequence.                            *)
(***************************************************************************)
Operations(body) == IF IsArray(body) THEN body.arr ELSE <<body>>
JsonPatched(q) ==
  /\ q.handler = "patch" /\ q.ctype = JsonPatchType
  /\ Has(q.trace, "ok:get") /\ Truthy(q.fetched)
C34_BodyAppliedAsItsOperations ==
  \A r \in Reqs :
    LET q == reqs[r]
        applied == ApplyOps(q.fetched, Operations(q.body))
    IN (JsonPatched(q) /\ applied.ok) =>
         /\ q.outs # <<NextOut(BadRequest)>>
         /\ q.pc = "patch/response" => q.resource = applied.doc

(***************************************************************************)
(* C35: the path parameters delivered to the dispatched handler contain    *)
(* only the names declared by the dispatched route's own template, with    *)
(* the values captured by that template, even when other entries'          *)
(* templates also match the path.                                          *)
(***************************************************************************)
Handled(q) == Dispatched(q) /\ q.handler \in HandlerNames
C35_ParamsOfDispatchedRouteOnly ==
  \A r \in Reqs :
    LET q == reqs[r]
    IN (Handled(q) /\ MethodMatched(q) # {}) =>
         LET t == routes[Min(MethodMatched(q))].path
         IN /\ DOMAIN q.params = {t[i].param : i \in Placeholders(t)}
            /\ \A i \in Placeholders(t) :
                 q.params[t[i].param] = Str(q.path[i])

(***************************************************************************)
(* C36: response-phase notifications are emitted only for requests that    *)
(* end with a response written: a request that ends with NotFound, or with *)
(* the error of a persist operation passed to next, has emitted no         *)
(* response-phase notification.                                            *)
(***************************************************************************)
EndedWith(q, errs) ==
  Done(q) /\ Len(q.outs) = 1 /\ q.outs[1].kind = "next" /\ q.outs[1].err \in errs
C36_NoResponseEventsWithoutResponse ==
  \A r \in Reqs :
    LET q == reqs[r]
    IN (Handled(q) /\ EndedWith(q, {NotFound, UpstreamError})) =>
         Only(q.trace, ResponseEmits) = <<>>

(***************************************************************************)
(* C37: if a request-phase listener reports an error, the handler passes   *)
(* that error to next, invokes no resource operation, emits no later       *)
(* notification and writes no response; the stored resources are left as   *)
(* they were.                                                              *)
(***************************************************************************)
Verbs == {"get", "post", "put", "patch", "delete"}
RequestPcs ==
  {h \o "/request" : h \in HandlerNames}
    \cup {h \o "/request:" \o v : h \in HandlerNames, v \in Verbs}
C37_RequestListenerErrorEndsRequest ==
  [][\A r \in Reqs :
       LET q == reqs[r]
           q2 == reqs'[r]
       IN q.pc \in RequestPcs =>
            /\ store' = store
            /\ Only(q.trace, OpTags \cup ResponseEmits \cup SendTags) = <<>>
            /\ Has(q2.trace, "next:error") =>
                 /\ q2.trace = Append(q.trace, "next:error")
                 /\ q.trace[Len(q.trace)] \in RequestEmits
                 /\ q2.outs = <<NextOut(ListenerError)>>
                 /\ Done(q2)]_vars
C37_Witness ==
  \E r \in Reqs :
    LET q == reqs[r]
    IN /\ Done(q) /\ q.handler = "put"
       /\ q.outs = <<NextOut(ListenerError)>>
       /\ Len(q.trace) >= 2
       /\ q.trace[Len(q.trace) - 1] = "emit:request:put"

(***************************************************************************)
(* C38: if a response-phase listener reports an error after the domain     *)
(* operation of create, replace, removeOne or removeMany has succeeded,    *)
(* the handler passes the error to next and writes no response, and the    *)
(* mutation is not rolled back: the store stays as the operation left it.  *)
(***************************************************************************)
Mutating == {"post", "put", "delete", "collection.delete"}
ResponsePcs ==
  {h \o "/response" : h \in Mutating}
    \cup {h \o "/response:" \o v : h \in Mutating, v \in Verbs}
\* the store holds what the operation of the request made of it
Kept(q, st) ==
  CASE q.handler = "put" ->
         Identified(q) => st[q.resource.id.num] = q.resource
    [] q.handler = "delete" ->
         Identified(q) => st[q.resource.id.num] = Absent
    [] q.handler = "collection.delete" -> Matching(st, q.where) = {}
    [] q.handler = "post" ->
         \A it \in (IF IsArray(q.resource)
                     THEN {q.resource.arr[i] : i \in 1..Len(q.resource.arr)}
                     ELSE {q.resource}) :
           (IsObj(it) /\ IsId(GetKey(it, "id"))) => st[it.id.num] = it
C38_ResponseListenerErrorKeepsMutation ==
  [][\A r \in Reqs :
       LET q == reqs[r]
           q2 == reqs'[r]
       IN q.pc \in ResponsePcs =>
            /\ Has(q.trace, "ok:" \o q.handler)
            /\ Only(q.trace, SendTags) = <<>>
            /\ store' = store
            /\ Kept(q, store')
            /\ Has(q2.trace, "next:error") =>
                 /\ q2.trace = Append(q.trace, "next:error")
                 /\ q.trace[Len(q.trace)] \in ResponseEmits
                 /\ q2.outs = <<NextOut(ListenerError)>>
                 /\ Done(q2)]_vars
C38_Witness ==
  \E r \in Reqs :
    LET q == reqs[r]
    IN /\ Done(q) /\ q.handler = "delete"
       /\ q.outs = <<NextOut(ListenerError)>>
       /\ Has(q.trace, "ok:delete")
       /\ q.trace[Len(q.trace) - 1] = "emit:response:delete"
       /\ Identified(q) /\ store[q.resource.id.num] = Absent

(***************************************************************************)
(* C39: provided every listener and every resource operation eventually    *)
(* invokes its callback, every request a handler was invoked for           *)
(* eventually reaches a terminal outcome (a response written, an error     *)
(* passed to next, or a pass-through), for every action, updateMany with a *)
(* patch that fails to apply included.                                     *)
(***************************************************************************)
C39_EveryRequestReachesAnOutcome ==
  \A r \in {"r1"} :
    (Handled(reqs[r]) /\ ~Done(reqs[r]))
      ~> (Done(reqs[r]) /\ Len(Outcomes(reqs[r])) = 1)
\* every request a handler was invoked for comes to an end, be it with an
\* outcome or with an exception nobody catches
EveryHandledRequestIsOver ==
  \A r \in {"r1"} : Handled(reqs[r]) ~> Done(reqs[r])
====
